---- MODULE Spec2Model ----
(***************************************************************************)
(* A model of the eruim backend: the venue / event / user documents, the   *)
(* request handlers that create, update and delete them, the referential   *)
(* guards, the geocoding cascade and the background scheduler jobs.        *)
(*                                                                         *)
(* One request is handled at a time (each handler is one action).  Time is *)
(* counted in hours; it advances by one scheduler period per Tick.         *)
(***************************************************************************)
EXTENDS Integers, Sequences, FiniteSets, TLC

\* ---------------------------------------------------------------- bounds
MaxVenues == 2
MaxEvents == 2
MaxUsers == 2
MaxTypes == 2
MaxCities == 2
MaxDays == 3
MaxParams == 2

\* ------------------------------------------------------ program constants
\* timedelta(hours=48) of cleanup_unactivated_accounts
CleanupGraceHours == 48
\* expires_in=timedelta(hours=48) of User.is_confirmation_token_valid
ConfirmExpiryHours == 48
\* CronTrigger(hour=0, minute=0): one firing per 24 hours
CronPeriodHours == 24

VenueId == 1..MaxVenues
EventId == 1..MaxEvents
UserId == 1..MaxUsers
VenueTypeId == 1..MaxTypes
EventTypeId == 1..MaxTypes
CityId == 1..MaxCities
MaxTime == MaxDays * CronPeriodHours
Times == {d * CronPeriodHours : d \in 0..MaxDays}

\* Python's None for an optional field: the empty set; a value x is {x}.
None == {}
Some(x) == {x}
The(s) == CHOOSE x \in s : TRUE

VARIABLES
    venues,      \* collection 'venues':  id -> Venue document
    events,      \* collection 'events':  id -> Event document
    users,       \* collection 'users':   id -> User document
    venueTypes,  \* collection 'venue_types': the ids present
    eventTypes,  \* collection 'event_types': the ids present
    cities,      \* collection 'cities': the ids present
    folders,     \* the asset store: the files <<kind, folder, file>> on disk
    jobs,        \* the jobs registered with the BackgroundScheduler
    now,         \* the wall clock, in hours
    resp,        \* the outcome of the last step (handler response / job log)
    inflight,    \* the requests between their reads and their write: id -> request
    everActive   \* history: the accounts that have had is_active = true

vars == <<venues, events, users, venueTypes, eventTypes, cities, folders, jobs, now, resp,
          inflight, everActive>>

\* The history of User.is_active: an account enters everActive when a step
\* leaves it with is_active = true and leaves it when its document is
\* deleted.
RecordActivations ==
    everActive' = (everActive \cap DOMAIN users')
                      \cup {u \in DOMAIN users' : users'[u].is_active}

\* The response of a handler: the operation, the HTTP status, the document
\* it addressed (0: none), the updated-parameter list and a count (the
\* documents a job matched, the documents a delete took along by cascade).
Resp(op, status, id, updated, n) ==
    [op |-> op, status |-> status, id |-> id, updated |-> updated, n |-> n]

\* f with the key k removed / set.
Without(f, k) == [x \in DOMAIN f \ {k} |-> f[x]]
With(f, k, v) == [x \in DOMAIN f \cup {k} |-> IF x = k THEN v ELSE f[x]]

\* ------------------------------------------------------------------ text
\* A text is a sequence of one-character strings.
\* str.lower() on the letters the names use.
Lower(c) ==
    CASE c = "A" -> "a"
      [] c = "B" -> "b"
      [] c = "C" -> "c"
      [] c = "X" -> "x"
      [] OTHER -> c

\* The characters slugify keeps ([^-a-zA-Z0-9]+ is replaced by the separator).
SlugChars ==
    {"a", "b", "c", "d", "e", "f", "l", "t", "u", "x", "y", "z",
     "0", "1", "2", "3", "4", "5", "6", "7", "8", "9", "-"}

\* Runs of "-" collapsed to one "-".
RECURSIVE CollapseDashes(_)
CollapseDashes(s) ==
    IF Len(s) <= 1 THEN s
    ELSE IF s[1] = "-" /\ s[2] = "-" THEN CollapseDashes(Tail(s))
    ELSE <<s[1]>> \o CollapseDashes(Tail(s))

\* str.strip("-")
RECURSIVE StripDashes(_)
StripDashes(s) ==
    IF s = <<>> THEN s
    ELSE IF s[1] = "-" THEN StripDashes(Tail(s))
    ELSE IF s[Len(s)] = "-" THEN StripDashes(SubSeq(s, 1, Len(s) - 1))
    ELSE s

\* A derivation that strips the separators before it replaces the other
\* characters, so that a separator made from a leading quote or space stays.
SlugifyStrippingFirst(s) ==
    LET stripped == StripDashes(s)
        mapped == [i \in 1..Len(stripped) |->
                      IF Lower(stripped[i]) \in SlugChars
                      THEN Lower(stripped[i]) ELSE "-"]
    IN  CollapseDashes(mapped)

\* slugify(text) of the python-slugify package with its defaults: quotes
\* become the separator, the text is lower-cased, every other character
\* outside [-a-z0-9] becomes the separator, separators are collapsed and
\* stripped from both ends.
Slugify(s) ==
    LET mapped == [i \in 1..Len(s) |->
                      IF Lower(s[i]) \in SlugChars THEN Lower(s[i]) ELSE "-"]
    IN  StripDashes(CollapseDashes(mapped))

\* The letters of the names: what [a-zA-Z] matches among the characters the
\* names use.
Letters == {"a", "b", "c", "d", "e", "f", "l", "t", "u", "x", "y", "z",
            "A", "B", "C", "X"}

\* ----------------------------------------------------------------- names
\* Hebrew and Russian letters are written as tokens: "alef", "ru_a", ...
\* The letters of the three alphabets that the names use, position by
\* position (the rendering of a word by the translator).
EnAlphabet == <<"a", "b", "c", "d", "t", "x", "y">>
HeAlphabet == <<"alef", "bet", "qof", "dalet", "tav", "samekh", "yod">>
RuAlphabet == <<"ru_a", "ru_b", "ru_k", "ru_d", "ru_t", "ru_s", "ru_j">>

AlphabetOf(lang) ==
    CASE lang = "en" -> EnAlphabet
      [] lang = "he" -> HeAlphabet
      [] OTHER -> RuAlphabet

Range(seq) == {seq[i] : i \in 1..Len(seq)}

HeLetters == Range(HeAlphabet)
RuLetters == Range(RuAlphabet) \cup {"ru_A", "ru_B", "ru_K"}

\* The position of the letter c in the alphabet it belongs to; 0 for a
\* character that is no letter of the three alphabets.
LetterPosition(c) ==
    IF \E l \in {"en", "he", "ru"}, i \in 1..Len(EnAlphabet) : AlphabetOf(l)[i] = c
    THEN CHOOSE i \in 1..Len(EnAlphabet) :
            \E l \in {"en", "he", "ru"} : AlphabetOf(l)[i] = c
    ELSE 0

\* The concatenation of a sequence of texts (''.join).
RECURSIVE Join(_)
Join(parts) == IF parts = <<>> THEN <<>> ELSE Head(parts) \o Join(Tail(parts))

\* eng_to_hebrew.get(char, char) of the lower-cased character. The pairs
\* ch, sh, th, ts need an h or an s, which no name of the model has.
EngToHebrew(c) ==
    CASE c = "a" -> <<"alef">>
      [] c = "b" -> <<"bet">>
      [] c = "c" -> <<"qof">>
      [] c = "d" -> <<"dalet">>
      [] c = "e" -> <<"alef">>
      [] c = "t" -> <<"tav">>
      [] c = "x" -> <<"qof", "samekh">>
      [] c = "y" -> <<"yod">>
      [] OTHER -> <<c>>

\* transliterate_en_to_he
TransliterateEnToHe(text) ==
    Join([i \in 1..Len(text) |-> EngToHebrew(Lower(text[i]))])

\* eng_to_ru.get(char, char)
EngToRu(c) ==
    CASE c = "a" -> <<"ru_a">>
      [] c = "b" -> <<"ru_b">>
      [] c = "c" -> <<"ru_k">>
      [] c = "d" -> <<"ru_d">>
      [] c = "t" -> <<"ru_t">>
      [] c = "x" -> <<"ru_k", "ru_s">>
      [] c = "y" -> <<"ru_j">>
      [] c = "A" -> <<"ru_A">>
      [] c = "B" -> <<"ru_B">>
      [] c = "C" -> <<"ru_K">>
      [] c = "X" -> <<"ru_K", "ru_s">>
      [] OTHER -> <<c>>

\* transliterate_en_to_ru
TransliterateEnToRu(text) == Join([i \in 1..Len(text) |-> EngToRu(text[i])])

\* s ends with suffix (str.endswith)
EndsWith(s, suffix) ==
    /\ Len(s) >= Len(suffix)
    /\ SubSeq(s, Len(s) - Len(suffix) + 1, Len(s)) = suffix

\* The folder and file name of the default asset: 'default', 'default.png'.
DefaultName == <<"d", "e", "f", "a", "u", "l", "t">>

\* IMAGE_PATHS[kind].format(slug=..., filename=slug + ".png"): an image path
\* is <<kind, folder, file>>, the file name without its ".png".
ImagePath(kind, slug) == <<kind, slug, slug>>
DefaultImagePath(kind) == <<kind, DefaultName, DefaultName>>

\* image_path.endswith('default.png')
EndsWithDefaultPng(path) == EndsWith(path[3], DefaultName)

\* os.path.exists(<upload folder>/img/<kind>/<slug>)
FolderExists(fs, kind, slug) == \E f \in fs : f[1] = kind /\ f[2] = slug

\* ----------------------------------------------------------- asset store
\* save_image_from_request: makedirs(<kind>/<slug>, exist_ok) and the image
\* written as <slug>.png.
SaveImage(fs, kind, slug) == fs \cup {<<kind, slug, slug>>}

\* delete_folder_from_path: the folder of the image is removed with all its
\* files, unless it is the folder 'default'.
DeleteFolderFromPath(fs, path) ==
    IF path[2] = DefaultName THEN fs
    ELSE {f \in fs : ~(f[1] = path[1] /\ f[2] = path[2])}

\* rename_image_folder: no folder under the old slug: only the new path is
\* built. Otherwise os.rename(old_dir, new_dir), which fails on an existing
\* (non-empty) target, and the file <old>.png inside becomes <new>.png. A
\* failure is a ConfigurationError.
RenameImageFolder(fs, kind, old, new) ==
    IF ~FolderExists(fs, kind, old)
    THEN [ok |-> TRUE, fs |-> fs, path |-> ImagePath(kind, new), renamed |-> FALSE]
    ELSE IF new # old /\ FolderExists(fs, kind, new)
    THEN [ok |-> FALSE, fs |-> fs, path |-> ImagePath(kind, new), renamed |-> FALSE]
    ELSE [ok |-> TRUE,
          fs |-> {f \in fs : ~(f[1] = kind /\ f[2] = old)}
                 \cup {<<kind, new, IF f[3] = old THEN new ELSE f[3]>> :
                          f \in {g \in fs : g[1] = kind /\ g[2] = old}},
          path |-> ImagePath(kind, new), renamed |-> TRUE]

\* -------------------------------------------------------------- gateways
\* What the external services do during one request: all calls succeed
\* ("ok"), or the named call is the first to fail.
\*   tr_name   translate_with_google of a name raises
\*   tr_same   the translator answers a name with the text it was sent
\*   geonames  validate_and_get_names raises
\*   tr_addr   translate_with_google of the address raises
\*   geo_404   HERE finds no item for the address   (UserError 404)
\*   geo_err   the HERE request fails               (ExternalServiceError)
ExtOutcomes == {"ok", "tr_name", "geonames", "tr_addr", "geo_404", "geo_err"}

\* An address text is <<language, street>>; translate_with_google of an
\* address gives the same street in the target language.
TranslateAddress(addr, target) == <<target, addr[2]>>

\* City.name_he of the city document c.
CityNameHe(c) == <<"he", c>>

\* f"{address_he}, {city.name_he}"
FullAddressHe(address_he, city) == <<address_he, CityNameHe(city)>>

\* validate_and_get_location: HERE's position of a full Hebrew address, a
\* function of the text it is asked about: [longitude, latitude].
HerePosition(full_address_he) == <<full_address_he[1][2], full_address_he[2][2]>>

\* The status a raised error is answered with: UserError carries its own
\* status; ExternalServiceError and ConfigurationError reach the handlers
\* registered in register_error_handlers.
StatusOfExternalServiceError == 500
StatusOfConfigurationError == 500
StatusOfNotUniqueError == 409
StatusOfValidationError == 400

\* What the translator answers for a name when it succeeds: the word in the
\* letters of the target language ("ok"), or the text as it was sent, as for
\* an abbreviation it does not translate ("tr_same").
NameExtOutcomes == {"ok", "tr_name", "tr_same"}

\* translate_with_google(source_text, source_lang, target_lang) for a name,
\* when it raises nothing.
TranslateName(text, target, ext) ==
    IF ext = "tr_same" THEN text
    ELSE [i \in 1..Len(text) |->
             IF LetterPosition(text[i]) = 0 THEN text[i]
             ELSE AlphabetOf(target)[LetterPosition(text[i])]]

\* The names of a request body: each of name_en, name_he, name_ru is None or
\* Some(text).
Names(en, he, ru) == [name_en |-> en, name_he |-> he, name_ru |-> ru]

\* A choice of the source that prefers the last language of the list.
SourceLangLastFirst(names) ==
    IF names.name_ru # None THEN "ru"
    ELSE IF names.name_he # None THEN "he" ELSE "en"

\* The if/elif chain that picks the source language: name_en, else name_he,
\* else name_ru.
SourceLang(names) ==
    IF names.name_en # None THEN "en"
    ELSE IF names.name_he # None THEN "he" ELSE "ru"

\* The block the four create handlers share: the source is the first name
\* present in the order en, he, ru; a missing name is translated from it;
\* name_he and name_ru are then transliterated. err is 0, 400 (no name) or
\* the status of the ExternalServiceError; calls lists the targets of the
\* translation calls made. translit: the handler transliterates (venues
\* and events do, the types do not).
AutoFillNames(names, translit, ext) ==
    LET hasName == names.name_en # None \/ names.name_he # None \/ names.name_ru # None
        source_lang == SourceLang(names)
        source_text == IF source_lang = "en" THEN The(names.name_en)
                       ELSE IF source_lang = "he" THEN The(names.name_he)
                       ELSE The(names.name_ru)
        calls == (IF names.name_en = None THEN <<"en">> ELSE <<>>)
                 \o (IF names.name_he = None THEN <<"he">> ELSE <<>>)
                 \o (IF names.name_ru = None THEN <<"ru">> ELSE <<>>)
        name_en == IF names.name_en = None THEN TranslateName(source_text, "en", ext)
                   ELSE The(names.name_en)
        name_he == IF names.name_he = None THEN TranslateName(source_text, "he", ext)
                   ELSE The(names.name_he)
        name_ru == IF names.name_ru = None THEN TranslateName(source_text, "ru", ext)
                   ELSE The(names.name_ru)
    IN  IF ~hasName
        THEN [err |-> 400, source |-> "", calls |-> <<>>,
              name_en |-> <<>>, name_he |-> <<>>, name_ru |-> <<>>]
        ELSE IF ext = "tr_name" /\ calls # <<>>
        THEN [err |-> StatusOfExternalServiceError, source |-> source_lang,
              calls |-> <<Head(calls)>>,
              name_en |-> <<>>, name_he |-> <<>>, name_ru |-> <<>>]
        ELSE [err |-> 0, source |-> source_lang, calls |-> calls,
              name_en |-> name_en,
              name_he |-> IF translit THEN TransliterateEnToHe(name_he) ELSE name_he,
              name_ru |-> IF translit THEN TransliterateEnToRu(name_ru) ELSE name_ru]

\* The names of a body given as a record.
NamesOfRecord(data) ==
    Names(IF "name_en" \in DOMAIN data THEN Some(data.name_en) ELSE None,
          IF "name_he" \in DOMAIN data THEN Some(data.name_he) ELSE None,
          IF "name_ru" \in DOMAIN data THEN Some(data.name_ru) ELSE None)

\* ---------------------------------------------------------------- venues
\* A count that looks at the wrong flag: the inactive events of the venue.
CountInactiveEventsOf(v) ==
    Cardinality({e \in DOMAIN events : events[e].venue = v /\ ~events[e].is_active})

\* Event.objects(venue=venue, is_active=True).count()
ActiveEventsOf(v) ==
    Cardinality({e \in DOMAIN events : events[e].venue = v /\ events[e].is_active})

\* The unique index on Venue.slug: another venue document holds the slug.
VenueSlugTaken(v, slug) == \E w \in DOMAIN venues : w # v /\ venues[w].slug = slug

\* The outcome of a handler before it is committed: the response and the
\* collections and asset store as the handler leaves them.
Outcome(r, vs, cs, fs) == [resp |-> r, venues |-> vs, cities |-> cs, folders |-> fs]

\* Venue.name_en as Document.save() validates it: min_length 3 and the regex
\* ^[a-zA-Z\s-]+$.
VenueNameEnValid(s) ==
    /\ Len(s) >= 3
    /\ \A i \in 1..Len(s) : s[i] \in Letters \cup {" ", "-"}

\* Venue.name_he and Venue.name_ru as Document.save() validates them.
VenueNameHeValid(s) ==
    /\ Len(s) >= 3
    /\ \A i \in 1..Len(s) : s[i] \in HeLetters \cup {" ", "-"}

VenueNameRuValid(s) ==
    /\ Len(s) >= 3
    /\ \A i \in 1..Len(s) : s[i] \in RuLetters \cup {" ", "-"}

\* The check for a name in use that create_new_venue makes on the source
\* name: name_en, else name_he, else name_ru, the last one looked up in
\* the name_he field.
VenueNameInUse(data) ==
    IF "name_en" \in DOMAIN data
    THEN \E w \in DOMAIN venues : venues[w].name_en = data.name_en
    ELSE IF "name_he" \in DOMAIN data
    THEN \E w \in DOMAIN venues : venues[w].name_he = data.name_he
    ELSE IF "name_ru" \in DOMAIN data
    THEN \E w \in DOMAIN venues : venues[w].name_he = data.name_ru
    ELSE FALSE

\* create_new_venue. data: at least one of name_en, name_he, name_ru, and
\* address_en, city_en, venue_type_en, phone; img: an image file is
\* uploaded; ext: the external services.
CreateVenueOutcome(v, data, img, ext) ==
    LET fail(status, cs, fs) ==
            Outcome(Resp("create_venue", status, 0, <<>>, 0), venues, cs, fs)
        fill == AutoFillNames(NamesOfRecord(data), TRUE, ext)
        cityKnown == data.city_en \in cities
        cities1 == cities \cup {data.city_en}
        address_he == TranslateAddress(data.address_en, "he")
        slug == Slugify(fill.name_en)
        folders1 == IF img THEN SaveImage(folders, "venues", slug) ELSE folders
        doc == [name_en |-> fill.name_en,
                name_he |-> fill.name_he,
                name_ru |-> fill.name_ru,
                address_en |-> data.address_en,
                address_he |-> address_he,
                city |-> data.city_en,
                venue_type |-> data.venue_type_en,
                phone |-> data.phone,
                is_active |-> TRUE,
                location |-> HerePosition(FullAddressHe(address_he, data.city_en)),
                image_path |-> IF img THEN ImagePath("venues", slug)
                               ELSE DefaultImagePath("venues"),
                slug |-> slug]
    IN  IF data.venue_type_en \notin venueTypes THEN fail(404, cities, folders)
        ELSE IF VenueNameInUse(data) THEN fail(409, cities, folders)
        ELSE IF fill.err # 0 THEN fail(fill.err, cities, folders)
        ELSE IF ~cityKnown /\ ext = "geonames"
        THEN fail(StatusOfExternalServiceError, cities, folders)
        \* from here on a city added by this request is already saved
        ELSE IF ext = "tr_addr" THEN fail(StatusOfExternalServiceError, cities1, folders)
        ELSE IF ext = "geo_404" THEN fail(404, cities1, folders)
        ELSE IF ext = "geo_err" THEN fail(StatusOfExternalServiceError, cities1, folders)
        \* the image is written before venue.save() validates the document
        \* and meets the unique index
        ELSE IF ~(/\ VenueNameEnValid(doc.name_en)
                  /\ VenueNameHeValid(doc.name_he)
                  /\ VenueNameRuValid(doc.name_ru))
        THEN fail(StatusOfValidationError, cities1, folders1)
        ELSE IF VenueSlugTaken(v, slug) THEN fail(StatusOfNotUniqueError, cities1, folders1)
        ELSE Outcome(Resp("create_venue", 201, v, <<>>, 0),
                     With(venues, v, doc), cities1, folders1)

\* The handler's outcome written to the state.
Commit(o) ==
    /\ resp' = o.resp
    /\ venues' = o.venues
    /\ cities' = o.cities
    /\ folders' = o.folders

\* update_data, the keyword arguments of update_one, in insertion order: a
\* sequence of <<field, value>>. update_data[key] = value:
Put(upd, key, value) ==
    IF \E i \in 1..Len(upd) : upd[i][1] = key
    THEN [i \in 1..Len(upd) |-> IF upd[i][1] = key THEN <<key, value>> ELSE upd[i]]
    ELSE Append(upd, <<key, value>>)

Has(upd, key) == \E i \in 1..Len(upd) : upd[i][1] = key
Get(upd, key) == upd[CHOOSE i \in 1..Len(upd) : upd[i][1] = key][2]
Keys(upd) == [i \in 1..Len(upd) |-> upd[i][1]]

\* Venue.objects(slug=slug).update_one(**update_data): the set__ operators
\* applied to the document.
ApplyUpdate(doc, upd) ==
    [f \in DOMAIN doc |-> IF Has(upd, f) THEN Get(upd, f) ELSE doc[f]]

\* validate_and_get_location under the request's gateway behaviour: the
\* status it fails with (0: it returns).
GeocodeFailure(ext) ==
    IF ext = "geo_404" THEN 404
    ELSE IF ext = "geo_err" THEN StatusOfExternalServiceError
    ELSE 0

\* full_update_existing_venue. data: every field of the body.
FullUpdateVenueOutcome(v, data, img, ext) ==
    LET venue == venues[v]
        fail(status, fs) ==
            Outcome(Resp("full_update_venue", status, v, <<>>, 0), venues, cities, fs)
        new_slug == Slugify(data.name_en)
        upd0 == << <<"name_en", data.name_en>>,
                   <<"address_en", data.address_en>>,
                   <<"address_he", data.address_he>>,
                   <<"phone", data.phone>>,
                   <<"is_active", data.is_active>>,
                   <<"venue_type", data.venue_type_en>>,
                   <<"city", data.city_en>>,
                   <<"slug", new_slug>> >>
        doRename == venue.slug # new_slug /\ ~EndsWithDefaultPng(venue.image_path)
        ren == RenameImageFolder(folders, "venues", venue.slug, new_slug)
        fs1 == IF doRename THEN ren.fs ELSE folders
        upd1 == IF doRename THEN Put(upd0, "image_path", ren.path) ELSE upd0
        doGeo == venue.address_en # data.address_en
        location == HerePosition(FullAddressHe(data.address_he, data.city_en))
        upd2 == IF doGeo /\ venue.location # location
                THEN Put(upd1, "location", location) ELSE upd1
        fs2 == IF img THEN SaveImage(fs1, "venues", venue.slug) ELSE fs1
        upd3 == IF img THEN Put(upd2, "image_path", ImagePath("venues", venue.slug))
                ELSE upd2
    IN  IF ~data.is_active /\ venue.is_active /\ ActiveEventsOf(v) > 0
        THEN fail(409, folders)
        ELSE IF data.venue_type_en \notin venueTypes THEN fail(404, folders)
        ELSE IF data.city_en \notin cities THEN fail(404, folders)
        ELSE IF doRename /\ ~ren.ok THEN fail(StatusOfConfigurationError, folders)
        ELSE IF doGeo /\ GeocodeFailure(ext) # 0 THEN fail(GeocodeFailure(ext), fs1)
        ELSE IF VenueSlugTaken(v, new_slug) THEN fail(StatusOfNotUniqueError, fs2)
        ELSE Outcome(Resp("full_update_venue", 200, v, Keys(upd3), 0),
                     With(venues, v, ApplyUpdate(venue, upd3)), cities, fs2)

FullUpdateVenue(v, data, img, ext) ==
    /\ v \in DOMAIN venues
    /\ Commit(FullUpdateVenueOutcome(v, data, img, ext))
    /\ UNCHANGED <<events, users, venueTypes, eventTypes, jobs, now, inflight, everActive>>

\* A loop that asks the geocoder for every changed address field, English or
\* Hebrew.
RECURSIVE VenuePatchLoopGeocodingEachAddress(_, _, _, _, _)
VenuePatchLoopGeocodingEachAddress(v, data, i, acc, ext) ==
    IF i > Len(data) THEN acc
    ELSE LET param == data[i][1]
             value == data[i][2]
             asked == param \in {"address_en", "address_he"} /\ venues[v][param] # value
         IN  VenuePatchLoopGeocodingEachAddress(v, data, i + 1,
                 [acc EXCEPT !.upd = Put(@, param, value),
                             !.geo = IF asked THEN @ + 1 ELSE @], ext)

\* The loop of part_update_existing_venue over data.items(), from the i-th
\* submitted parameter on. acc: err (the status raised, 0: none), upd
\* (update_data), unchanged (unchanged_params), fs (the asset store), geo and
\* ren (the geocoding calls and folder renames made so far).
RECURSIVE VenuePatchLoop(_, _, _, _, _)
VenuePatchLoop(v, data, i, acc, ext) ==
    IF i > Len(data) \/ acc.err # 0 THEN acc
    ELSE
    LET venue == venues[v]
        param == data[i][1]
        value == data[i][2]
        set(key) == [acc EXCEPT !.upd = Put(acc.upd, key, value)]
        same(name) == [acc EXCEPT !.unchanged = Append(acc.unchanged, name)]
        raise(status) == [acc EXCEPT !.err = status]
        next ==
          CASE param = "is_active" ->
                 IF value # venue.is_active
                 THEN IF ~value /\ venue.is_active /\ ActiveEventsOf(v) > 0
                      THEN raise(409)
                      ELSE set("is_active")
                 ELSE same(param)
            [] param = "venue_type_en" ->
                 IF value \notin venueTypes THEN raise(404)
                 ELSE IF venue.venue_type # value THEN set("venue_type")
                 ELSE same("venue_type")
            [] param = "city_en" ->
                 IF value \notin cities THEN raise(404)
                 ELSE IF venue.city # value THEN set("city")
                 ELSE same("city")
            [] param = "address_en" ->
                 IF value # venue.address_en
                 THEN LET location ==
                              HerePosition(FullAddressHe(venue.address_he, venue.city))
                          a1 == [set("address_en") EXCEPT !.geo = acc.geo + 1]
                      IN  IF GeocodeFailure(ext) # 0
                          THEN [a1 EXCEPT !.err = GeocodeFailure(ext)]
                          ELSE IF venue.location # location
                          THEN [a1 EXCEPT !.upd = Put(a1.upd, "location", location)]
                          ELSE a1
                 ELSE same(param)
            [] param = "name_en" ->
                 IF value # venue.name_en
                 THEN LET new_slug == Slugify(value)
                          a1 == [acc EXCEPT !.upd =
                                    Put(Put(acc.upd, "name_en", value), "slug", new_slug)]
                          ren == RenameImageFolder(acc.fs, "venues", venue.slug, new_slug)
                      IN  IF EndsWithDefaultPng(venue.image_path) THEN a1
                          ELSE IF ~ren.ok
                          THEN [a1 EXCEPT !.err = StatusOfConfigurationError]
                          ELSE [a1 EXCEPT !.upd = Put(a1.upd, "image_path", ren.path),
                                          !.fs = ren.fs,
                                          !.ren = IF ren.renamed THEN acc.ren + 1
                                                  ELSE acc.ren]
                 ELSE same(param)
            [] OTHER ->
                 IF venue[param] # value THEN set(param) ELSE same(param)
    IN  VenuePatchLoop(v, data, i + 1, next, ext)

\* part_update_existing_venue. data: the submitted parameters in the order
\* of the body, a sequence of <<parameter, value>>.
PartUpdateVenueOutcome(v, data, img, ext) ==
    LET venue == venues[v]
        acc0 == [err |-> 0, upd |-> <<>>, unchanged |-> <<>>, fs |-> folders,
                 geo |-> 0, ren |-> 0]
        acc == VenuePatchLoop(v, data, 1, acc0, ext)
        fs2 == IF img THEN SaveImage(acc.fs, "venues", venue.slug) ELSE acc.fs
        upd2 == IF img THEN Put(acc.upd, "image_path", ImagePath("venues", venue.slug))
                ELSE acc.upd
        fail(status, fs) ==
            Outcome(Resp("part_update_venue", status, v, <<>>, 0), venues, cities, fs)
    IN  IF acc.err # 0 THEN fail(acc.err, acc.fs)
        ELSE IF upd2 = <<>>
        THEN Outcome(Resp("part_update_venue", 200, v, <<>>, 0), venues, cities, fs2)
        ELSE IF Has(upd2, "slug") /\ VenueSlugTaken(v, Get(upd2, "slug"))
        THEN fail(StatusOfNotUniqueError, fs2)
        ELSE Outcome(Resp("part_update_venue", 200, v, Keys(upd2), 0),
                     With(venues, v, ApplyUpdate(venue, upd2)), cities, fs2)

\* The number of geocoding calls (validate_and_get_location) and of folder
\* renames (os.rename) one part_update_existing_venue makes.
VenuePatchCalls(v, data, ext) ==
    LET acc == VenuePatchLoop(v, data, 1,
                   [err |-> 0, upd |-> <<>>, unchanged |-> <<>>, fs |-> folders,
                    geo |-> 0, ren |-> 0], ext)
    IN  [geo |-> acc.geo, ren |-> acc.ren]

\* The same numbers for one full_update_existing_venue.
FullUpdateVenueCalls(v, data, ext) ==
    LET venue == venues[v]
        new_slug == Slugify(data.name_en)
        doRename == venue.slug # new_slug /\ ~EndsWithDefaultPng(venue.image_path)
        ren == RenameImageFolder(folders, "venues", venue.slug, new_slug)
        reached == /\ ~(~data.is_active /\ venue.is_active /\ ActiveEventsOf(v) > 0)
                   /\ data.venue_type_en \in venueTypes
                   /\ data.city_en \in cities
    IN  [ren |-> IF reached /\ doRename /\ ren.renamed THEN 1 ELSE 0,
         geo |-> IF reached /\ (doRename => ren.ok) /\ venue.address_en # data.address_en
                 THEN 1 ELSE 0]

\* unchanged_params as one part_update_existing_venue leaves it.
VenuePatchUnchanged(v, data, ext) ==
    VenuePatchLoop(v, data, 1,
        [err |-> 0, upd |-> <<>>, unchanged |-> <<>>, fs |-> folders,
         geo |-> 0, ren |-> 0], ext).unchanged

PartUpdateVenue(v, data, img, ext) ==
    /\ v \in DOMAIN venues
    /\ Commit(PartUpdateVenueOutcome(v, data, img, ext))
    /\ UNCHANGED <<events, users, venueTypes, eventTypes, jobs, now, inflight, everActive>>

CreateVenue(v, data, img, ext) ==
    /\ v \notin DOMAIN venues
    /\ Commit(CreateVenueOutcome(v, data, img, ext))
    /\ UNCHANGED <<events, users, venueTypes, eventTypes, jobs, now, inflight, everActive>>

\* ---------------------------------------------------------------- events
\* Asia/Jerusalem (standard time) is two hours ahead of UTC.
LocalOffsetHours == 2

DigitChar(n) ==
    CASE n = 0 -> "0" [] n = 1 -> "1" [] n = 2 -> "2" [] n = 3 -> "3" [] n = 4 -> "4"
      [] n = 5 -> "5" [] n = 6 -> "6" [] n = 7 -> "7" [] n = 8 -> "8" [] OTHER -> "9"

\* convert_to_local(start_date).strftime('%Y-%m-%d-%H-%M'), of which the
\* model keeps the day and the hour: "DD-HH".
SlugDate(t) ==
    LET local == t + LocalOffsetHours
        day == local \div 24
        hour == local % 24
    IN  <<DigitChar((day \div 10) % 10), DigitChar(day % 10), "-",
          DigitChar(hour \div 10), DigitChar(hour % 10)>>

\* A slug whose date is formatted in UTC instead of local time.
EventSlugUtc(name_en, start_date) ==
    LET day == start_date \div 24
        hour == start_date % 24
    IN  Slugify(name_en \o <<"-">> \o
                <<DigitChar((day \div 10) % 10), DigitChar(day % 10), "-",
                  DigitChar(hour \div 10), DigitChar(hour % 10)>>)

\* slugify(f"{name_en}-{slug_date}")
EventSlug(name_en, start_date) == Slugify(name_en \o <<"-">> \o SlugDate(start_date))

\* The unique index on Event.slug.
EventSlugTaken(e, slug) == \E w \in DOMAIN events : w # e /\ events[w].slug = slug

\* A test that accepts an end at the current time.
EndsNowOrLater(end_date) == end_date >= now

\* is_valid_end_time: the end lies after the current time.
IsValidEndTime(end_date) == end_date > now

\* validate_event_data on the submitted parameters (a sequence of
\* <<parameter, value>>): TRUE when it raises no UserError.
ValidEventData(data) ==
    /\ (Has(data, "start_date") /\ Has(data, "end_date")) =>
          /\ ~(Get(data, "end_date") < Get(data, "start_date"))
          /\ IsValidEndTime(Get(data, "end_date"))
    /\ Has(data, "price_type") =>
          IF Get(data, "price_type") \in {"fixed", "starting_from"}
          THEN Has(data, "price_amount") /\ ~(Get(data, "price_amount") < 0)
          ELSE ~Has(data, "price_amount")

\* A clean that looks at the dates only.
EventCleanDatesOnly(doc) == ~(doc.end_date < doc.start_date)

\* Event.clean, run by save(): TRUE when it raises no ValidationError.
EventClean(doc) ==
    /\ ~(doc.end_date < doc.start_date)
    /\ IF doc.price_type \in {"fixed", "starting_from"}
       THEN doc.price_amount # None
       ELSE doc.price_amount = None

EventOutcome(r, es, fs) == [resp |-> r, events |-> es, folders |-> fs]

CommitEvent(o) ==
    /\ resp' = o.resp
    /\ events' = o.events
    /\ folders' = o.folders

\* data.get("price_amount")
PriceAmountOf(data) ==
    IF Has(data, "price_amount") THEN Some(Get(data, "price_amount")) ELSE None

\* The characters the Event name fields take besides the letters: \d, \s,
\* the hyphen and the quotes.
EventNameMarks == {"0", "1", "2", "3", "4", "5", "6", "7", "8", "9", " ", "-", "'"}

\* Event.name_en, name_he, name_ru as Document.save() validates them.
EventNamesValid(doc) ==
    /\ Len(doc.name_en) >= 3 /\ Len(doc.name_he) >= 3 /\ Len(doc.name_ru) >= 3
    /\ \A i \in 1..Len(doc.name_en) : doc.name_en[i] \in Letters \cup EventNameMarks
    /\ \A i \in 1..Len(doc.name_he) : doc.name_he[i] \in HeLetters \cup EventNameMarks
    /\ \A i \in 1..Len(doc.name_ru) : doc.name_ru[i] \in RuLetters \cup EventNameMarks

\* The names of a body given as a sequence of <<parameter, value>>.
NamesOfBody(data) ==
    Names(IF Has(data, "name_en") THEN Some(Get(data, "name_en")) ELSE None,
          IF Has(data, "name_he") THEN Some(Get(data, "name_he")) ELSE None,
          IF Has(data, "name_ru") THEN Some(Get(data, "name_ru")) ELSE None)

\* create_new_event. data: the body, a sequence of <<parameter, value>> with
\* at least one of name_en, name_he, name_ru, and venue_slug,
\* event_type_slug, start_date, end_date, price_type and, optionally,
\* price_amount.
CreateEventOutcome(e, data, img, ext) ==
    LET fail(status, fs) ==
            EventOutcome(Resp("create_event", status, 0, <<>>, 0), events, fs)
        fill == AutoFillNames(NamesOfBody(data), TRUE, ext)
        slug == EventSlug(fill.name_en, Get(data, "start_date"))
        folders1 == IF img THEN SaveImage(folders, "events", slug) ELSE folders
        doc == [name_en |-> fill.name_en,
                name_he |-> fill.name_he,
                name_ru |-> fill.name_ru,
                venue |-> Get(data, "venue_slug"),
                event_type |-> Get(data, "event_type_slug"),
                start_date |-> Get(data, "start_date"),
                end_date |-> Get(data, "end_date"),
                price_type |-> Get(data, "price_type"),
                price_amount |-> PriceAmountOf(data),
                is_active |-> TRUE,
                image_path |-> IF img THEN ImagePath("events", slug)
                               ELSE DefaultImagePath("events"),
                slug |-> slug]
    IN  IF ~ValidEventData(data) THEN fail(400, folders)
        ELSE IF Get(data, "event_type_slug") \notin eventTypes THEN fail(404, folders)
        ELSE IF Get(data, "venue_slug") \notin DOMAIN venues THEN fail(404, folders)
        ELSE IF fill.err # 0 THEN fail(fill.err, folders)
        ELSE IF ~EventClean(doc) \/ ~EventNamesValid(doc)
        THEN fail(StatusOfValidationError, folders1)
        ELSE IF EventSlugTaken(e, slug) THEN fail(StatusOfNotUniqueError, folders1)
        ELSE EventOutcome(Resp("create_event", 201, e, <<>>, 0),
                          With(events, e, doc), folders1)

CreateEvent(e, data, img, ext) ==
    /\ e \notin DOMAIN events
    /\ CommitEvent(CreateEventOutcome(e, data, img, ext))
    /\ UNCHANGED <<venues, users, venueTypes, eventTypes, cities, jobs, now, inflight, everActive>>

\* ALLOWED_EVENT_UPDATE_BODY_PARAMS, of which the model keeps these.
EventUpdateBodyParams ==
    {"name_en", "venue_slug", "event_type_slug", "start_date", "end_date",
     "price_type", "price_amount", "is_active"}

\* missing_params = ALLOWED_EVENT_UPDATE_BODY_PARAMS - set(data.keys())
MissingEventParams(data) == {p \in EventUpdateBodyParams : ~Has(data, p)}

\* full_update_existing_event. data: the parameters of the body
\* (ALLOWED_EVENT_UPDATE_BODY_PARAMS is required in full, price_amount
\* included).
FullUpdateEventOutcome(e, data, img, ext) ==
    LET event == events[e]
        fail(status, fs) ==
            EventOutcome(Resp("full_update_event", status, e, <<>>, 0), events, fs)
        new_slug == EventSlug(Get(data, "name_en"), Get(data, "start_date"))
        doRename == new_slug # event.slug /\ ~EndsWithDefaultPng(event.image_path)
        ren == RenameImageFolder(folders, "events", event.slug, new_slug)
        fs1 == IF doRename THEN ren.fs ELSE folders
        path1 == IF doRename THEN ren.path ELSE event.image_path
        \* event.slug is already the new slug when the image is saved
        fs2 == IF img THEN SaveImage(fs1, "events", new_slug) ELSE fs1
        path2 == IF img THEN ImagePath("events", new_slug) ELSE path1
        \* the body carries name_he and name_ru too; a body of the model
        \* that leaves them out resubmits the stored ones
        doc == [name_en |-> Get(data, "name_en"),
                name_he |-> IF Has(data, "name_he") THEN Get(data, "name_he")
                            ELSE event.name_he,
                name_ru |-> IF Has(data, "name_ru") THEN Get(data, "name_ru")
                            ELSE event.name_ru,
                venue |-> Get(data, "venue_slug"),
                event_type |-> Get(data, "event_type_slug"),
                start_date |-> Get(data, "start_date"),
                end_date |-> Get(data, "end_date"),
                price_type |-> Get(data, "price_type"),
                price_amount |-> PriceAmountOf(data),
                is_active |-> Get(data, "is_active"),
                image_path |-> path2,
                slug |-> new_slug]
    IN  IF MissingEventParams(data) # {} THEN fail(400, folders)
        ELSE IF ~ValidEventData(data) THEN fail(400, folders)
        ELSE IF Get(data, "event_type_slug") \notin eventTypes THEN fail(404, folders)
        ELSE IF Get(data, "venue_slug") \notin DOMAIN venues THEN fail(404, folders)
        ELSE IF doRename /\ ~ren.ok THEN fail(StatusOfConfigurationError, folders)
        ELSE IF ~EventClean(doc) THEN fail(400, fs2)
        ELSE IF EventSlugTaken(e, new_slug) THEN fail(StatusOfNotUniqueError, fs2)
        ELSE EventOutcome(Resp("full_update_event", 200, e, <<>>, 0),
                          With(events, e, doc), fs2)

FullUpdateEvent(e, data, img, ext) ==
    /\ e \in DOMAIN events
    /\ CommitEvent(FullUpdateEventOutcome(e, data, img, ext))
    /\ UNCHANGED <<venues, users, venueTypes, eventTypes, cities, jobs, now, inflight, everActive>>

\* The date preparation of part_update_existing_event: when one of the two
\* dates is submitted the stored other one is added to data.
WithBothDates(event, data) ==
    IF Has(data, "start_date") /\ ~Has(data, "end_date")
    THEN Append(data, <<"end_date", event.end_date>>)
    ELSE IF Has(data, "end_date") /\ ~Has(data, "start_date")
    THEN Append(data, <<"start_date", event.start_date>>)
    ELSE data

\* The loop of part_update_existing_event over data.items(). acc: err, doc
\* (the event object as setattr leaves it), updated (updated_params),
\* unchanged (unchanged_params).
RECURSIVE EventPatchLoop(_, _, _)
EventPatchLoop(data, i, acc) ==
    IF i > Len(data) \/ acc.err # 0 THEN acc
    ELSE
    LET param == data[i][1]
        value == data[i][2]
        set(field, v) == [acc EXCEPT !.doc = [acc.doc EXCEPT ![field] = v],
                                     !.updated = Append(acc.updated, field)]
        same(name) == [acc EXCEPT !.unchanged = Append(acc.unchanged, name)]
        next ==
          CASE param = "event_type_slug" ->
                 IF value \notin eventTypes THEN [acc EXCEPT !.err = 404]
                 ELSE IF acc.doc.event_type # value THEN set("event_type", value)
                 ELSE same("event_type")
            [] param = "venue_slug" ->
                 IF value \notin DOMAIN venues THEN [acc EXCEPT !.err = 404]
                 ELSE IF acc.doc.venue # value THEN set("venue", value)
                 ELSE same("venue")
            [] param = "price_amount" ->
                 IF acc.doc.price_amount # Some(value) THEN set(param, Some(value))
                 ELSE same(param)
            [] OTHER ->
                 IF acc.doc[param] # value THEN set(param, value) ELSE same(param)
    IN  EventPatchLoop(data, i + 1, next)

Contains(seq, x) == \E i \in 1..Len(seq) : seq[i] = x

\* part_update_existing_event. data0: the submitted parameters in the order
\* of the body.
PartUpdateEventOutcome(e, data0, img, ext) ==
    LET event == events[e]
        data == WithBothDates(event, data0)
        fail(status, fs) ==
            EventOutcome(Resp("part_update_event", status, e, <<>>, 0), events, fs)
        acc0 == [err |-> 0, doc |-> event, updated |-> <<>>, unchanged |-> <<>>]
        acc == EventPatchLoop(data, 1, acc0)
        fs1 == IF img THEN SaveImage(folders, "events", event.slug) ELSE folders
        doc1 == IF img THEN [acc.doc EXCEPT !.image_path = ImagePath("events", event.slug)]
                ELSE acc.doc
        updated1 == IF img THEN Append(acc.updated, "image_path") ELSE acc.updated
        reslug == Contains(updated1, "start_date") \/ Contains(updated1, "name_en")
        new_slug == EventSlug(doc1.name_en, doc1.start_date)
        doRename == reslug /\ new_slug # event.slug /\ ~EndsWithDefaultPng(doc1.image_path)
        ren == RenameImageFolder(fs1, "events", event.slug, new_slug)
        fs2 == IF doRename THEN ren.fs ELSE fs1
        doc2 == IF reslug
                THEN [doc1 EXCEPT !.slug = new_slug,
                                  !.image_path = IF doRename THEN ren.path ELSE @]
                ELSE doc1
    IN  IF ~ValidEventData(data) THEN fail(400, folders)
        ELSE IF acc.err # 0 THEN fail(acc.err, folders)
        ELSE IF updated1 = <<>>
        THEN EventOutcome(Resp("part_update_event", 200, e, <<>>, 0), events, fs1)
        ELSE IF doRename /\ ~ren.ok THEN fail(StatusOfConfigurationError, fs1)
        ELSE IF ~EventClean(doc2) THEN fail(400, fs2)
        ELSE IF EventSlugTaken(e, doc2.slug) THEN fail(StatusOfNotUniqueError, fs2)
        ELSE EventOutcome(Resp("part_update_event", 200, e, updated1, 0),
                          With(events, e, doc2), fs2)

\* unchanged_params as one part_update_existing_event leaves it.
EventPatchUnchanged(e, data0) ==
    EventPatchLoop(WithBothDates(events[e], data0), 1,
        [err |-> 0, doc |-> events[e], updated |-> <<>>, unchanged |-> <<>>]).unchanged

PartUpdateEvent(e, data, img, ext) ==
    /\ e \in DOMAIN events
    /\ CommitEvent(PartUpdateEventOutcome(e, data, img, ext))
    /\ UNCHANGED <<venues, users, venueTypes, eventTypes, cities, jobs, now, inflight, everActive>>

\* --------------------------------------------------------------- deletes
\* No delete rule at all: the users stay as they are.
UsersKept(deleted) == users

\* The reverse_delete_rule=CASCADE of User.favorite_events: the users whose
\* favorite_events hold one of the deleted events are deleted with them.
UsersAfterEventDelete(deleted) ==
    [u \in {w \in DOMAIN users : users[w].favorite_events \cap deleted = {}} |-> users[u]]

\* delete_existing_event
DeleteEvent(e) ==
    /\ e \in DOMAIN events
    /\ folders' = DeleteFolderFromPath(folders, events[e].image_path)
    /\ events' = Without(events, e)
    /\ users' = UsersAfterEventDelete({e})
    /\ resp' = Resp("delete_event", 204, e, <<>>,
                    Cardinality(DOMAIN users \ DOMAIN UsersAfterEventDelete({e})))
    /\ UNCHANGED <<venues, venueTypes, eventTypes, cities, jobs, now, inflight>>
    /\ RecordActivations

\* A delete without the guard on active events.
DeleteVenueUnguarded(v) ==
    /\ v \in DOMAIN venues
    /\ folders' = DeleteFolderFromPath(folders, venues[v].image_path)
    /\ venues' = Without(venues, v)
    /\ events' = [e \in {x \in DOMAIN events : events[x].venue # v} |-> events[e]]
    /\ users' = users
    /\ resp' = Resp("delete_venue", 204, v, <<>>, 0)
    /\ UNCHANGED <<venueTypes, eventTypes, cities, jobs, now, inflight>>
    /\ RecordActivations

\* The reverse_delete_rule=CASCADE of Event.venue: the events of a deleted
\* venue.
EventsOfVenue(v) == {e \in DOMAIN events : events[e].venue = v}

\* delete_existing_venue
DeleteVenue(v) ==
    /\ v \in DOMAIN venues
    /\ IF ActiveEventsOf(v) > 0
       THEN /\ resp' = Resp("delete_venue", 409, v, <<>>, 0)
            /\ UNCHANGED <<venues, events, users, folders>>
       ELSE /\ folders' = DeleteFolderFromPath(folders, venues[v].image_path)
            /\ venues' = Without(venues, v)
            /\ events' = [e \in DOMAIN events \ EventsOfVenue(v) |-> events[e]]
            /\ users' = UsersAfterEventDelete(EventsOfVenue(v))
            /\ resp' = Resp("delete_venue", 204, v, <<>>, Cardinality(EventsOfVenue(v)))
    /\ UNCHANGED <<venueTypes, eventTypes, cities, jobs, now, inflight>>
    /\ RecordActivations

\* A count of only the venues of the type that host an event.
VenuesOfTypeHostingEvents(t) ==
    Cardinality({v \in DOMAIN venues :
                    /\ venues[v].venue_type = t
                    /\ \E e \in DOMAIN events : events[e].venue = v})

\* The English name of the type t.
TypeName(t) == <<"t", "y", IF t = 1 THEN "a" ELSE "b">>

\* VenueType(...) / EventType(...) as the create handlers build it.
TypeDocument(fill) ==
    [name_en |-> fill.name_en, name_ru |-> fill.name_ru, name_he |-> fill.name_he,
     slug |-> Slugify(fill.name_en)]

\* The name fields of a type document as Document.save() validates them.
TypeNamesValid(doc) ==
    /\ Len(doc.name_en) >= 2 /\ Len(doc.name_he) >= 2 /\ Len(doc.name_ru) >= 2
    /\ \A i \in 1..Len(doc.name_en) : doc.name_en[i] \in Letters \cup {" ", "-"}
    /\ \A i \in 1..Len(doc.name_he) : doc.name_he[i] \in HeLetters \cup {" ", "-"}
    /\ \A i \in 1..Len(doc.name_ru) : doc.name_ru[i] \in RuLetters \cup {" ", "-"}

NoNames == Names(None, None, None)

\* create_new_venue_type for the type t, named in the body by one or more
\* of its names: the status and the document built.
CreateVenueTypeOutcome(t, names, ext) ==
    LET fill == AutoFillNames(names, FALSE, ext)
        doc == TypeDocument(fill)
        answer(status) == [status |-> status, doc |-> doc]
    IN  IF names # NoNames /\ t \in venueTypes THEN answer(409)
        ELSE IF fill.err # 0 THEN answer(fill.err)
        ELSE IF ~TypeNamesValid(doc) THEN answer(StatusOfValidationError)
        ELSE answer(201)

\* create_new_venue_type, the type t named by its name_en.
CreateVenueType(t, ext) ==
    LET o == CreateVenueTypeOutcome(t, Names(Some(TypeName(t)), None, None), ext)
    IN  /\ resp' = Resp("create_venue_type", o.status, t, <<>>, 0)
        /\ venueTypes' = IF o.status = 201 THEN venueTypes \cup {t} ELSE venueTypes
        /\ UNCHANGED <<venues, events, users, eventTypes, cities, folders, jobs, now, inflight, everActive>>

\* Venue.objects(venue_type=venue_type).count()
VenuesOfType(t) == Cardinality({v \in DOMAIN venues : venues[v].venue_type = t})

\* delete_existing_venue_type
DeleteVenueType(t) ==
    /\ t \in venueTypes
    /\ IF VenuesOfType(t) > 0
       THEN /\ resp' = Resp("delete_venue_type", 409, t, <<>>, 0)
            /\ UNCHANGED venueTypes
       ELSE /\ venueTypes' = venueTypes \ {t}
            /\ resp' = Resp("delete_venue_type", 204, t, <<>>, 0)
    /\ UNCHANGED <<venues, events, users, eventTypes, cities, folders, jobs, now, inflight, everActive>>

\* create_new_event_type for the type t: the names are translated first, a
\* name in use is met by the unique index at save().
CreateEventTypeOutcome(t, names, ext) ==
    LET fill == AutoFillNames(names, FALSE, ext)
        doc == TypeDocument(fill)
        answer(status) == [status |-> status, doc |-> doc]
    IN  IF fill.err # 0 THEN answer(fill.err)
        ELSE IF ~TypeNamesValid(doc) THEN answer(StatusOfValidationError)
        ELSE IF t \in eventTypes THEN answer(StatusOfNotUniqueError)
        ELSE answer(201)

\* create_new_event_type, the type t named by its name_en.
CreateEventType(t, ext) ==
    LET o == CreateEventTypeOutcome(t, Names(Some(TypeName(t)), None, None), ext)
    IN  /\ resp' = Resp("create_event_type", o.status, t, <<>>, 0)
        /\ eventTypes' = IF o.status = 201 THEN eventTypes \cup {t} ELSE eventTypes
        /\ UNCHANGED <<venues, events, users, venueTypes, cities, folders, jobs, now, inflight, everActive>>

\* Event.objects(event_type=event_type).count()
EventsOfType(t) == Cardinality({e \in DOMAIN events : events[e].event_type = t})

\* delete_existing_event_type
DeleteEventType(t) ==
    /\ t \in eventTypes
    /\ IF EventsOfType(t) > 0
       THEN /\ resp' = Resp("delete_event_type", 409, t, <<>>, 0)
            /\ UNCHANGED eventTypes
       ELSE /\ eventTypes' = eventTypes \ {t}
            /\ resp' = Resp("delete_event_type", 204, t, <<>>, 0)
    /\ UNCHANGED <<venues, events, users, venueTypes, cities, folders, jobs, now, inflight, everActive>>

\* ----------------------------------------------------------------- users
\* register_new_user, with the e-mail address as the id of the document: an
\* inactive account, then set_email_confirmation_token with a fresh token
\* (the token of the account u is u).
RegisterNewUser(u) ==
    /\ IF u \in DOMAIN users
       THEN /\ resp' = Resp("register", 409, u, <<>>, 0)
            /\ UNCHANGED users
       ELSE /\ users' = With(users, u,
                             [is_active |-> FALSE,
                              email_confirmation_token |-> Some(u),
                              email_confirmation_token_created |-> Some(now),
                              favorite_events |-> {}])
            /\ resp' = Resp("register", 201, u, <<>>, 0)
    /\ UNCHANGED <<venues, events, venueTypes, eventTypes, cities, folders, jobs, now, inflight>>
    /\ RecordActivations

\* A validity test without the expiry.
TokenMatches(user, token) ==
    /\ user.email_confirmation_token # None
    /\ user.email_confirmation_token = Some(token)

\* User.is_confirmation_token_valid(token)
IsConfirmationTokenValid(user, token) ==
    /\ user.email_confirmation_token # None
    /\ user.email_confirmation_token_created # None
    /\ user.email_confirmation_token = Some(token)
    /\ ~(now - The(user.email_confirmation_token_created) > ConfirmExpiryHours)

\* verify_email_confirmation_token: the response and the users it leaves.
VerifyOutcome(token) ==
    LET found == {u \in DOMAIN users : users[u].email_confirmation_token = Some(token)}
    IN  IF found = {} \/ ~IsConfirmationTokenValid(users[The(found)], token)
        THEN [resp |-> Resp("confirm_email", 400, 0, <<>>, 0), users |-> users]
        ELSE [resp |-> Resp("confirm_email", 200, The(found), <<>>, 0),
              users |-> [users EXCEPT ![The(found)] =
                            [@ EXCEPT !.is_active = TRUE,
                                      !.email_confirmation_token = None,
                                      !.email_confirmation_token_created = None]]]

VerifyEmailConfirmationToken(token) ==
    /\ resp' = VerifyOutcome(token).resp
    /\ users' = VerifyOutcome(token).users
    /\ UNCHANGED <<venues, events, venueTypes, eventTypes, cities, folders, jobs, now, inflight>>
    /\ RecordActivations

\* create_new_user (by an admin): no confirmation token.
CreateNewUser(u, is_active) ==
    /\ IF u \in DOMAIN users
       THEN /\ resp' = Resp("create_user", 409, u, <<>>, 0)
            /\ UNCHANGED users
       ELSE /\ users' = With(users, u,
                             [is_active |-> is_active,
                              email_confirmation_token |-> None,
                              email_confirmation_token_created |-> None,
                              favorite_events |-> {}])
            /\ resp' = Resp("create_user", 201, u, <<>>, 0)
    /\ UNCHANGED <<venues, events, venueTypes, eventTypes, cities, folders, jobs, now, inflight>>
    /\ RecordActivations

\* part_update_existing_user / full_update_existing_user with is_active.
UpdateUserIsActive(u, is_active) ==
    /\ u \in DOMAIN users
    /\ users' = [users EXCEPT ![u].is_active = is_active]
    /\ resp' = Resp("update_user", 200, u,
                    IF users[u].is_active # is_active THEN <<"is_active">> ELSE <<>>, 0)
    /\ UNCHANGED <<venues, events, venueTypes, eventTypes, cities, folders, jobs, now, inflight>>
    /\ RecordActivations

\* add_event_to_favorites
AddEventToFavorites(u, e) ==
    /\ u \in DOMAIN users
    /\ e \in DOMAIN events
    /\ users' = [users EXCEPT ![u].favorite_events = @ \cup {e}]
    /\ resp' = Resp("add_favorite", 200, u, <<>>, 0)
    /\ UNCHANGED <<venues, events, venueTypes, eventTypes, cities, folders, jobs, now, inflight>>
    /\ RecordActivations

\* remove_event_from_favorites
RemoveEventFromFavorites(u, e) ==
    /\ u \in DOMAIN users
    /\ e \in DOMAIN events
    /\ users' = [users EXCEPT ![u].favorite_events = @ \ {e}]
    /\ resp' = Resp("remove_favorite", 200, u, <<>>, 0)
    /\ UNCHANGED <<venues, events, venueTypes, eventTypes, cities, folders, jobs, now, inflight>>
    /\ RecordActivations

\* ------------------------------------------------------------- scheduler
\* The accounts cleanup_unactivated_accounts matches at the current time.
OldUnactivated ==
    {u \in DOMAIN users :
        /\ ~users[u].is_active
        /\ users[u].email_confirmation_token # None
        /\ users[u].email_confirmation_token_created # None
        /\ The(users[u].email_confirmation_token_created) <= now - CleanupGraceHours}

\* cleanup_unactivated_accounts: the users it leaves.
UsersAfterCleanup == [u \in DOMAIN users \ OldUnactivated |-> users[u]]

\* A filter with end_date <= current_time.
EndedOrEndingEvents ==
    {e \in DOMAIN events : events[e].end_date <= now /\ events[e].is_active}

\* A filter without is_active=True.
PastEventsOfAnyState == {e \in DOMAIN events : events[e].end_date < now}

\* The events deactivate_past_events matches at the current time.
PastEvents == {e \in DOMAIN events : events[e].end_date < now /\ events[e].is_active}

\* A bulk update that sets is_active of the matched events to its opposite.
EventsAfterFlip ==
    [e \in DOMAIN events |->
        IF events[e].end_date < now
        THEN [events[e] EXCEPT !.is_active = ~events[e].is_active] ELSE events[e]]

\* A bulk update that matches only the events that ended within the last
\* scheduler period.
EventsAfterDeactivationOfLastPeriod ==
    [e \in DOMAIN events |->
        IF e \in PastEvents /\ events[e].end_date >= now - CronPeriodHours
        THEN [events[e] EXCEPT !.is_active = FALSE] ELSE events[e]]

\* deactivate_past_events: the events as its bulk update leaves them.
EventsAfterDeactivation ==
    [e \in DOMAIN events |->
        IF e \in PastEvents THEN [events[e] EXCEPT !.is_active = FALSE] ELSE events[e]]

\* The jobs init_scheduler adds to the BackgroundScheduler.
RegisteredJobs == {"deactivate_past_events"}

\* init_scheduler, called once when the server module is loaded.
InitScheduler ==
    /\ jobs = {}
    /\ jobs' = RegisteredJobs
    /\ resp' = Resp("init_scheduler", 0, 0, <<>>, 0)
    /\ UNCHANGED <<venues, events, users, venueTypes, eventTypes, cities, folders, now, inflight, everActive>>

\* The cron trigger fires: every registered job runs at the current time.
\* The log entry carries the number of events the expiry job matched and, as
\* id, whether this run directly follows another one (2) or not (1).
CronFire ==
    /\ jobs # {}
    /\ events' = IF "deactivate_past_events" \in jobs
                 THEN EventsAfterDeactivation ELSE events
    /\ users' = IF "cleanup_unactivated_accounts" \in jobs
                THEN UsersAfterCleanup ELSE users
    /\ resp' = Resp("cron", 0, IF resp.op = "cron" THEN 2 ELSE 1, <<>>,
                    IF "deactivate_past_events" \in jobs
                    THEN Cardinality(PastEvents) ELSE 0)
    /\ UNCHANGED <<venues, venueTypes, eventTypes, cities, folders, jobs, now, inflight>>
    /\ RecordActivations

\* cleanup_unactivated_accounts called on its own.
CleanupUnactivatedAccounts ==
    /\ users' = UsersAfterCleanup
    /\ resp' = Resp("cleanup_unactivated_accounts", 0, 0, <<>>, Cardinality(OldUnactivated))
    /\ UNCHANGED <<venues, events, venueTypes, eventTypes, cities, folders, jobs, now, inflight>>
    /\ RecordActivations

\* A scheduler period passes.
Tick ==
    /\ now + CronPeriodHours <= MaxTime
    /\ now' = now + CronPeriodHours
    /\ resp' = Resp("tick", 0, 0, <<>>, 0)
    /\ UNCHANGED <<venues, events, users, venueTypes, eventTypes, cities, folders, jobs,
                   inflight, everActive>>

\* ------------------------------------------------------------ requests
\* The bodies of at most n parameters, each parameter at most once, drawn
\* from a pool of <<parameter, value>> pairs, in every order.
RECURSIVE Bodies(_, _)
Bodies(pool, n) ==
    IF n = 0 THEN {<<>>}
    ELSE LET shorter == Bodies(pool, n - 1)
         IN  shorter \cup
             {Append(b, p) : <<b, p>> \in
                 {bp \in shorter \X pool : ~Has(bp[1], bp[2][1])}}

\* The names the requests use: VenueName(i) for venues, EventName(i) for
\* events.
VenueName(i) == <<"a", "b", IF i = 1 THEN "c" ELSE "d">>
EventName(i) == <<"x", "y", DigitChar(i)>>

\* The state of a fresh deployment: empty collections but for one seeded
\* venue type, event type and city; the scheduler is not started yet.
Init ==
    /\ venues = <<>>
    /\ events = <<>>
    /\ users = <<>>
    /\ venueTypes = {1}
    /\ eventTypes = {1}
    /\ cities = {1}
    /\ folders = {}
    /\ jobs = {}
    /\ now = 0
    /\ resp = Resp("start", 0, 0, <<>>, 0)
    /\ inflight = <<>>
    /\ everActive = {}

\* A body of create_new_venue.
VenueCreateBody(name, type) ==
    [name_en |-> name, address_en |-> <<"en", 1>>, city_en |-> 1,
     venue_type_en |-> type, phone |-> 1]

\* The body of a full venue update that resubmits the stored document.
VenueStoredBody(v) ==
    [name_en |-> venues[v].name_en, address_en |-> venues[v].address_en,
     address_he |-> venues[v].address_he, city_en |-> venues[v].city,
     venue_type_en |-> venues[v].venue_type, phone |-> venues[v].phone,
     is_active |-> venues[v].is_active]

\* A body of create_new_event with a fixed price.
EventCreateBody(name, venue, type, start, end) ==
    << <<"name_en", name>>, <<"venue_slug", venue>>, <<"event_type_slug", type>>,
       <<"start_date", start>>, <<"end_date", end>>,
       <<"price_type", "fixed">>, <<"price_amount", 5>> >>

\* The body of a full event update that resubmits the stored document (of
\* a priced event).
EventStoredBody(e) ==
    << <<"name_en", events[e].name_en>>, <<"venue_slug", events[e].venue>>,
       <<"event_type_slug", events[e].event_type>>,
       <<"start_date", events[e].start_date>>, <<"end_date", events[e].end_date>>,
       <<"price_type", events[e].price_type>>,
       <<"price_amount", The(events[e].price_amount)>>,
       <<"is_active", events[e].is_active>> >>

\* ------------------------------------------- the referential guard layer
\* Venues and their events: creates, updates of is_active and of the
\* references, deletes.
GuardVenuePool ==
    {<<"is_active", b>> : b \in BOOLEAN} \cup {<<"venue_type_en", t>> : t \in VenueTypeId}

GuardEventPool ==
    {<<"is_active", b>> : b \in BOOLEAN} \cup {<<"venue_slug", v>> : v \in VenueId}

Next ==
    \/ \E v \in VenueId, img \in BOOLEAN :
          CreateVenue(v, VenueCreateBody(VenueName(v), 1), img, "ok")
    \/ \E v \in VenueId, b \in BOOLEAN, t \in VenueTypeId :
          /\ v \in DOMAIN venues
          /\ FullUpdateVenue(v, [VenueStoredBody(v) EXCEPT !.is_active = b,
                                                          !.venue_type_en = t],
                             FALSE, "ok")
    \/ \E v \in VenueId, data \in Bodies(GuardVenuePool, MaxParams) \ {<<>>} :
          PartUpdateVenue(v, data, FALSE, "ok")
    \/ \E v \in VenueId : DeleteVenue(v)
    \/ \E e \in EventId, v \in VenueId :
          CreateEvent(e, EventCreateBody(EventName(e), v, 1, 0, CronPeriodHours),
                      FALSE, "ok")
    \/ \E e \in EventId, b \in BOOLEAN :
          /\ e \in DOMAIN events
          /\ FullUpdateEvent(e, Put(EventStoredBody(e), "is_active", b), FALSE, "ok")
    \/ \E e \in EventId, data \in Bodies(GuardEventPool, 1) \ {<<>>} :
          PartUpdateEvent(e, data, FALSE, "ok")
    \/ \E e \in EventId : DeleteEvent(e)

Spec == Init /\ [][Next]_vars

\* ------------------------------------------------- types and their users
\* Venue types, event types and the documents that reference them.
NextTypes ==
    \/ \E t \in VenueTypeId, ext \in {"ok", "tr_name"} : CreateVenueType(t, ext)
    \/ \E t \in VenueTypeId : DeleteVenueType(t)
    \/ \E t \in EventTypeId, ext \in {"ok", "tr_name"} : CreateEventType(t, ext)
    \/ \E t \in EventTypeId : DeleteEventType(t)
    \/ \E v \in VenueId, t \in VenueTypeId :
          CreateVenue(v, VenueCreateBody(VenueName(v), t), FALSE, "ok")
    \/ \E v \in VenueId, t \in VenueTypeId :
          PartUpdateVenue(v, << <<"venue_type_en", t>> >>, FALSE, "ok")
    \/ \E v \in VenueId : DeleteVenue(v)
    \/ \E e \in EventId, t \in EventTypeId :
          CreateEvent(e, EventCreateBody(EventName(e), 1, t, 0, CronPeriodHours),
                      FALSE, "ok")
    \/ \E e \in EventId, t \in EventTypeId, b \in BOOLEAN :
          PartUpdateEvent(e, << <<"event_type_slug", t>>, <<"is_active", b>> >>,
                          FALSE, "ok")
    \/ \E e \in EventId : DeleteEvent(e)

SpecTypes == Init /\ [][NextTypes]_vars

\* ------------------------------------------------------------- favorites
\* Users, their favorite events, and the deletes that reach them.
NextFavorites ==
    \/ \E v \in VenueId :
          CreateVenue(v, VenueCreateBody(VenueName(v), 1), FALSE, "ok")
    \/ \E v \in VenueId : DeleteVenue(v)
    \/ \E e \in EventId, v \in VenueId :
          CreateEvent(e, EventCreateBody(EventName(e), v, 1, 0, CronPeriodHours),
                      FALSE, "ok")
    \/ \E e \in EventId, b \in BOOLEAN :
          PartUpdateEvent(e, << <<"is_active", b>> >>, FALSE, "ok")
    \/ \E e \in EventId : DeleteEvent(e)
    \/ \E u \in UserId : CreateNewUser(u, TRUE)
    \/ \E u \in UserId, e \in EventId : AddEventToFavorites(u, e)
    \/ \E u \in UserId, e \in EventId : RemoveEventFromFavorites(u, e)

SpecFavorites == Init /\ [][NextFavorites]_vars

\* ---------------------------------------------------------- event expiry
\* Events of one venue, the clock and the scheduler.
NextExpiry ==
    \/ CreateVenue(1, VenueCreateBody(VenueName(1), 1), FALSE, "ok")
    \/ \E e \in EventId, end \in Times :
          CreateEvent(e, EventCreateBody(EventName(e), 1, 1, 0, end), FALSE, "ok")
    \/ \E e \in EventId, b \in BOOLEAN :
          PartUpdateEvent(e, << <<"is_active", b>> >>, FALSE, "ok")
    \/ InitScheduler
    \/ CronFire
    \/ Tick

SpecExpiry == Init /\ [][NextExpiry]_vars

\* -------------------------------------------------------------- accounts
\* Registration, e-mail confirmation and the account cleanup. Token 0 is a
\* token no account holds.
NextAccounts ==
    \/ \E u \in UserId : RegisterNewUser(u)
    \/ \E token \in UserId \cup {0} : VerifyEmailConfirmationToken(token)
    \/ \E u \in UserId, b \in BOOLEAN : UpdateUserIsActive(u, b)
    \/ InitScheduler
    \/ CronFire
    \/ CleanupUnactivatedAccounts
    \/ Tick

SpecAccounts == Init /\ [][NextAccounts]_vars

\* ------------------------------------------------------------- geocoding
\* One venue, its address fields and city, and the geocoding gateway.
GeoAddressPool ==
    {<<"address_en", <<"en", s>>>> : s \in 1..2}
        \cup {<<"address_he", <<"he", s>>>> : s \in 1..2}
        \cup {<<"city_en", c>> : c \in CityId}

NextGeo ==
    \/ \E c \in CityId :
          CreateVenue(1, [VenueCreateBody(VenueName(1), 1) EXCEPT !.city_en = c],
                      FALSE, "ok")
    \/ \E data \in Bodies(GeoAddressPool, MaxParams) \ {<<>>},
          ext \in {"ok", "geo_404", "geo_err"} :
          PartUpdateVenue(1, data, FALSE, ext)
    \/ \E s, h \in 1..2, c \in CityId, ext \in {"ok", "geo_404", "geo_err"} :
          /\ 1 \in DOMAIN venues
          /\ FullUpdateVenue(1, [VenueStoredBody(1) EXCEPT !.address_en = <<"en", s>>,
                                                          !.address_he = <<"he", h>>,
                                                          !.city_en = c],
                             FALSE, ext)

SpecGeo == Init /\ [][NextGeo]_vars

\* =================================================================== C1
\* The venue v hosts an event with is_active = TRUE.
HasActiveEvent(v) ==
    \E e \in DOMAIN events : events[e].venue = v /\ events[e].is_active

\* The partial-update bodies that submit is_active = FALSE, alone or with
\* another parameter before or after it.
DeactivationPool ==
    GuardVenuePool
        \cup {<<"city_en", c>> : c \in CityId}
        \cup {<<"address_en", <<"en", 2>>>>}
        \cup {<<"name_en", VenueName(i)>> : i \in VenueId}

DeactivatingBodies ==
    {d \in Bodies(DeactivationPool, MaxParams) :
        Has(d, "is_active") /\ ~Get(d, "is_active")}

\* The full-update bodies for the venue v that submit is_active = FALSE.
DeactivatingFullBodies(v) ==
    {[VenueStoredBody(v) EXCEPT !.is_active = FALSE, !.venue_type_en = t,
                                !.city_en = c, !.name_en = VenueName(i)] :
        t \in VenueTypeId, c \in CityId, i \in VenueId}

C2NoActiveEventOnInactiveVenue ==
    \A e \in DOMAIN events :
        events[e].is_active =>
            /\ events[e].venue \in DOMAIN venues
            /\ venues[events[e].venue].is_active

\* =================================================================== C3
\* C3: a delete of a venue that hosts an active event is answered 409 and
\* changes nothing; a delete of a venue without active events removes the
\* venue, every event that references it and the venue's image folder when
\* that is not the default one, and leaves the other venues and events.
C3DeleteVenueStep ==
    \A v \in DOMAIN venues :
        (resp'.op = "delete_venue" /\ resp'.id = v) =>
            IF HasActiveEvent(v)
            THEN /\ resp'.status = 409
                 /\ UNCHANGED <<venues, events, users, venueTypes, eventTypes,
                                cities, folders>>
            ELSE /\ resp'.status = 204
                 /\ v \notin DOMAIN venues'
                 /\ \A w \in DOMAIN venues \ {v} :
                       w \in DOMAIN venues' /\ venues'[w] = venues[w]
                 /\ \A e \in DOMAIN events :
                       IF events[e].venue = v THEN e \notin DOMAIN events'
                       ELSE e \in DOMAIN events' /\ events'[e] = events[e]
                 /\ venues[v].image_path[2] # DefaultName =>
                       ~FolderExists(folders', "venues", venues[v].image_path[2])

\* C3: every venue delete is refused with 409 and changes nothing while the
\* venue hosts an active event, and otherwise removes the venue, all its
\* events and its non-default image folder.
C3DeleteVenue == [][C3DeleteVenueStep]_vars

\* A venue has just been deleted together with events that referenced it.
C3Witness ==
    /\ resp.op = "delete_venue"
    /\ resp.status = 204
    /\ resp.n > 0
    /\ resp.id \notin DOMAIN venues
    /\ \A e \in DOMAIN events : events[e].venue # resp.id

\* =================================================================== C4
\* C4: after a step that deletes events (an event delete, or a venue delete
\* through its cascade), no user document holds a reference to a deleted
\* event in favorite_events; this includes every user that held one before.
C4NoFavoriteOfDeletedEventStep ==
    \A e \in DOMAIN events \ DOMAIN events' :
        \A u \in DOMAIN users' : e \notin users'[u].favorite_events

C5DeleteTypeStep ==
    /\ \A t \in venueTypes :
          /\ (resp'.op = "delete_venue_type" /\ resp'.id = t
                 /\ \E v \in DOMAIN venues : venues[v].venue_type = t)
                => (resp'.status = 409 /\ venueTypes' = venueTypes)
          /\ t \notin venueTypes' =>
                /\ resp'.op = "delete_venue_type" /\ resp'.status = 204
                /\ \A v \in DOMAIN venues : venues[v].venue_type # t
    /\ \A t \in eventTypes :
          /\ (resp'.op = "delete_event_type" /\ resp'.id = t
                 /\ \E e \in DOMAIN events : events[e].event_type = t)
                => (resp'.status = 409 /\ eventTypes' = eventTypes)
          /\ t \notin eventTypes' =>
                /\ resp'.op = "delete_event_type" /\ resp'.status = 204
                /\ \A e \in DOMAIN events : events[e].event_type # t

\* C5: every delete of a referenced venue type or event type is refused
\* with 409; a type is deleted only when nothing references it.
C5DeleteType == [][C5DeleteTypeStep]_vars

\* The delete of a venue type has just been refused: the type is still there
\* and a venue references it.
C5Witness ==
    /\ resp.op = "delete_venue_type"
    /\ resp.status = 409
    /\ resp.id \in venueTypes
    /\ \E v \in DOMAIN venues : venues[v].venue_type = resp.id

\* =================================================================== C6
\* C6: one run of the expiry job at time now leaves every event whose
\* end_date is before now inactive and every event whose end_date is now or
\* later exactly as it was; no event is added or removed.
C6ExpiryRunStep ==
    resp'.op = "cron" =>
        /\ DOMAIN events' = DOMAIN events
        /\ \A e \in DOMAIN events :
              IF events[e].end_date < now
              THEN /\ ~events'[e].is_active
                   /\ events'[e] = [events[e] EXCEPT !.is_active = FALSE]
              ELSE events'[e] = events[e]

\* C6: after every run of the expiry job at time now the events that ended
\* before now are inactive and the others are unchanged.
C6ExpiryRun == [][C6ExpiryRunStep]_vars

\* The job has just deactivated an event while an event that ends exactly
\* now is still active.
C6Witness ==
    /\ resp.op = "cron"
    /\ resp.n > 0
    /\ \E e \in DOMAIN events : events[e].end_date < now /\ ~events[e].is_active
    /\ \E e \in DOMAIN events : events[e].end_date = now /\ events[e].is_active

\* =================================================================== C7
\* C7: a run of the expiry job that directly follows another run, with no
\* time elapsed in between, matches no event and changes no event.
C7SecondRunStep ==
    (resp.op = "cron" /\ resp'.op = "cron" /\ now' = now) =>
        resp'.n = 0 /\ events' = events

\* C7: every second run of the expiry job in a row matches zero events and
\* changes nothing.
C7SecondRun == [][C7SecondRunStep]_vars

\* A second run in a row has just ended, with an expired event in store.
C7Witness ==
    /\ resp.op = "cron"
    /\ resp.id = 2
    /\ resp.n = 0
    /\ \E e \in DOMAIN events : events[e].end_date < now /\ ~events[e].is_active

\* =================================================================== C8
\* C8: after every run of the daily trigger of the initialised scheduler, no
\* account is left that is inactive, holds a confirmation token and has a
\* token creation time at least 48 hours old.
C8DailyRunStep ==
    (resp'.op = "cron" /\ jobs # {}) =>
        \A u \in DOMAIN users' :
            ~ /\ ~users'[u].is_active
              /\ users'[u].email_confirmation_token # None
              /\ users'[u].email_confirmation_token_created # None
              /\ now' - The(users'[u].email_confirmation_token_created)
                    >= CleanupGraceHours

\* C8: every daily run deletes the inactive accounts whose confirmation
\* token is at least 48 hours old.
C8DailyRunDeletesStaleAccounts == [][C8DailyRunStep]_vars

\* =================================================================== C9
\* The account u is confirmed: active, without token and token time.
Confirmed(u) ==
    /\ users[u].is_active
    /\ users[u].email_confirmation_token = None
    /\ users[u].email_confirmation_token_created = None

\* The tokens a confirmation request submits; 0 is held by no account.
SubmittedTokens == UserId \cup {0}

\* C9, the confirmation: a confirmation that succeeds leaves the account of
\* the token active with token and token time cleared and the other
\* accounts as they were; a token no account holds, or one created more than
\* 48 hours ago, is answered 400 and leaves every account as it was, the
\* holder unconfirmed.
C9Confirmation ==
    \A token \in SubmittedTokens :
        LET o == VerifyOutcome(token)
            holders == {u \in DOMAIN users :
                           users[u].email_confirmation_token = Some(token)}
            expired(u) ==
                now - The(users[u].email_confirmation_token_created) > ConfirmExpiryHours
        IN  IF holders = {} \/ \E u \in holders : expired(u)
            THEN o.resp.status = 400 /\ o.users = users
            ELSE /\ o.resp.status = 200
                 /\ o.resp.id \in holders
                 /\ DOMAIN o.users = DOMAIN users
                 /\ \A u \in DOMAIN users :
                       IF u = o.resp.id
                       THEN /\ o.users[u].is_active
                            /\ o.users[u].email_confirmation_token = None
                            /\ o.users[u].email_confirmation_token_created = None
                       ELSE o.users[u] = users[u]

\* C9, the cleanup: a run of the cleanup job (on its own or by the trigger)
\* keeps every confirmed account, unchanged.
C9CleanupStep ==
    resp'.op \in {"cleanup_unactivated_accounts", "cron"} =>
        \A u \in DOMAIN users :
            Confirmed(u) => (u \in DOMAIN users' /\ users'[u] = users[u])

\* C9: a successful confirmation leaves the account active with token and
\* token time cleared, a wrong or expired token fails and leaves the account
\* unconfirmed, and the cleanup job never deletes a confirmed account.
C9ConfirmedAccount == []C9Confirmation /\ [][C9CleanupStep]_vars

\* A confirmation has just succeeded and the account is confirmed.
C9Witness ==
    /\ resp.op = "confirm_email"
    /\ resp.status = 200
    /\ resp.id \in DOMAIN users
    /\ Confirmed(resp.id)

\* ================================================================== C10
\* C10: after a venue update that changes address_en the stored location is
\* the geocoder's position of the address as it is after the update (the
\* stored Hebrew address and city of the updated document), and when the
\* coordinates changed the updated list names address_en and location.
C10LocationFollowsAddressStep ==
    \A v \in DOMAIN venues :
        (/\ resp'.op \in {"part_update_venue", "full_update_venue"}
         /\ resp'.status = 200
         /\ resp'.id = v
         /\ venues'[v].address_en # venues[v].address_en)
        => /\ venues'[v].location =
                 HerePosition(FullAddressHe(venues'[v].address_he, venues'[v].city))
           /\ venues'[v].location # venues[v].location =>
                 /\ Contains(resp'.updated, "address_en")
                 /\ Contains(resp'.updated, "location")

\* C10: after every venue update that changes address_en the location is
\* the geocoder's position of the updated address, and a changed location
\* is reported together with address_en in the updated list.
C10LocationFollowsAddress == [][C10LocationFollowsAddressStep]_vars

\* ------------------------------------------------------- slugs and assets
\* The names of the rename requests. The third venue name and the second
\* event name differ from the first only in case: the two have one slug.
CascadeVenueNames == {VenueName(1), VenueName(2), <<"A", "b", "c">>}
CascadeEventNames == {EventName(1), <<"X", "y", "1">>}
CascadeStartDates == {0, CronPeriodHours}

CascadeVenuePool ==
    {<<"name_en", n>> : n \in CascadeVenueNames}
        \cup {<<"address_en", <<"en", s>>>> : s \in 1..2}

CascadeEventPool ==
    {<<"name_en", n>> : n \in CascadeEventNames}
        \cup {<<"start_date", t>> : t \in CascadeStartDates}

\* Venues under renames and image uploads.
NextVenueAssets ==
    \/ \E v \in VenueId, n \in CascadeVenueNames, img \in BOOLEAN :
          CreateVenue(v, VenueCreateBody(n, 1), img, "ok")
    \/ \E v \in VenueId, n \in CascadeVenueNames, img \in BOOLEAN :
          PartUpdateVenue(v, << <<"name_en", n>> >>, img, "ok")
    \/ \E v \in VenueId, n \in CascadeVenueNames, img \in BOOLEAN :
          /\ v \in DOMAIN venues
          /\ FullUpdateVenue(v, [VenueStoredBody(v) EXCEPT !.name_en = n], img, "ok")
    \/ \E v \in VenueId : DeleteVenue(v)

SpecVenueAssets == Init /\ [][NextVenueAssets]_vars

\* Events of one venue under renames, date changes and image uploads.
NextEventSlugs ==
    \/ CreateVenue(1, VenueCreateBody(VenueName(1), 1), FALSE, "ok")
    \/ \E e \in EventId, n \in CascadeEventNames, t \in CascadeStartDates,
          img \in BOOLEAN :
          CreateEvent(e, EventCreateBody(n, 1, 1, t, MaxTime), img, "ok")
    \/ \E e \in EventId, data \in Bodies(CascadeEventPool, MaxParams) \ {<<>>},
          img \in BOOLEAN :
          PartUpdateEvent(e, data, img, "ok")
    \/ \E e \in EventId, n \in CascadeEventNames, t \in CascadeStartDates,
          img \in BOOLEAN :
          /\ e \in DOMAIN events
          /\ FullUpdateEvent(e, Put(Put(EventStoredBody(e), "name_en", n),
                                    "start_date", t), img, "ok")
    \/ \E e \in EventId : DeleteEvent(e)

SpecEventSlugs == Init /\ [][NextEventSlugs]_vars

\* One venue and one event of it under every kind of update.
NextUpdates ==
    \/ \E img \in BOOLEAN :
          CreateVenue(1, VenueCreateBody(VenueName(1), 1), img, "ok")
    \/ \E data \in Bodies(CascadeVenuePool, MaxParams) \ {<<>>},
          img \in BOOLEAN :
          PartUpdateVenue(1, data, img, "ok")
    \/ \E n \in CascadeVenueNames, s \in 1..2, img \in BOOLEAN :
          /\ 1 \in DOMAIN venues
          /\ FullUpdateVenue(1, [VenueStoredBody(1) EXCEPT !.name_en = n,
                                                          !.address_en = <<"en", s>>],
                             img, "ok")
    \/ \E img \in BOOLEAN :
          CreateEvent(1, EventCreateBody(EventName(1), 1, 1, 0, CronPeriodHours),
                      img, "ok")
    \/ \E data \in Bodies(CascadeEventPool, MaxParams) \ {<<>>}, img \in BOOLEAN :
          PartUpdateEvent(1, data, img, "ok")
    \/ \E n \in CascadeEventNames, t \in CascadeStartDates, img \in BOOLEAN :
          /\ 1 \in DOMAIN events
          /\ FullUpdateEvent(1, Put(Put(EventStoredBody(1), "name_en", n),
                                    "start_date", t), img, "ok")
    \/ (now = 0 /\ Tick)

SpecUpdates == Init /\ [][NextUpdates]_vars

\* ================================================================== C11
\* The update bodies of a venue: names, both addresses, city and is_active.
VenueUpdatePool ==
    CascadeVenuePool
        \cup {<<"address_he", <<"he", s>>>> : s \in 1..2}
        \cup {<<"city_en", c>> : c \in CityId}
        \cup {<<"is_active", b>> : b \in BOOLEAN}

VenueFullBodies(v) ==
    {[VenueStoredBody(v) EXCEPT !.name_en = n, !.address_en = <<"en", s>>,
                                !.address_he = <<"he", h>>, !.city_en = c] :
        n \in CascadeVenueNames, s \in 1..2, h \in 1..2, c \in CityId}

\* C11, the calls: one venue update, partial or full, asks the geocoder at
\* most once, and only when the submitted address_en differs from the
\* stored one; it renames the image folder at most once.
C11Calls ==
    \A v \in DOMAIN venues, ext \in ExtOutcomes :
        /\ \A data \in Bodies(VenueUpdatePool, MaxParams) :
              LET c == VenuePatchCalls(v, data, ext)
              IN  /\ c.geo <= 1
                  /\ c.ren <= 1
                  /\ c.geo = 1 => /\ Has(data, "address_en")
                                  /\ Get(data, "address_en") # venues[v].address_en
        /\ \A data \in VenueFullBodies(v) :
              LET c == FullUpdateVenueCalls(v, data, ext)
              IN  /\ c.geo <= 1
                  /\ c.ren <= 1
                  /\ c.geo = 1 => data.address_en # venues[v].address_en

\* The image folders <<kind, folder>> on disk.
FolderNames(fs) == {<<f[1], f[2]>> : f \in fs}

\* C11, the effect: a venue or event update step moves at most one image
\* folder away from its name.
C11RenameStep ==
    resp'.op \in {"part_update_venue", "full_update_venue",
                  "part_update_event", "full_update_event"} =>
        Cardinality(FolderNames(folders) \ FolderNames(folders')) <= 1

\* C11: within one venue update the geocoder is called at most once and
\* only for a changed address_en; within one venue or event update the
\* image folder is renamed at most once.
C11AtMostOneCascade == []C11Calls /\ [][C11RenameStep]_vars

\* A partial update has just changed address_en and the name of a venue
\* with an image of its own: the folder now carries the new slug.
C11Witness ==
    /\ resp.op = "part_update_venue"
    /\ resp.status = 200
    /\ Contains(resp.updated, "address_en")
    /\ Contains(resp.updated, "slug")
    /\ Contains(resp.updated, "image_path")
    /\ venues[resp.id].slug # Slugify(VenueName(1))
    /\ venues[resp.id].image_path = ImagePath("venues", venues[resp.id].slug)
    /\ FolderExists(folders, "venues", venues[resp.id].slug)

\* ================================================================== C12
\* The parameters of a partial update that resubmit what is stored.
StoredVenuePool(v) ==
    {<<"name_en", venues[v].name_en>>, <<"address_en", venues[v].address_en>>,
     <<"address_he", venues[v].address_he>>, <<"city_en", venues[v].city>>,
     <<"venue_type_en", venues[v].venue_type>>, <<"phone", venues[v].phone>>,
     <<"is_active", venues[v].is_active>>}

StoredEventPool(e) ==
    {<<"name_en", events[e].name_en>>, <<"venue_slug", events[e].venue>>,
     <<"event_type_slug", events[e].event_type>>,
     <<"start_date", events[e].start_date>>, <<"end_date", events[e].end_date>>,
     <<"price_type", events[e].price_type>>, <<"is_active", events[e].is_active>>}
        \cup {<<"price_amount", a>> : a \in events[e].price_amount}

\* The identical partial update of the venue v is a success without effect:
\* nothing updated, nothing written, no folder touched, no gateway called
\* (it succeeds whichever gateway is down), every parameter unchanged.
IdenticalVenuePatchIsNoOp(v) ==
    \A data \in Bodies(StoredVenuePool(v), MaxParams) \ {<<>>}, ext \in ExtOutcomes :
        LET o == PartUpdateVenueOutcome(v, data, FALSE, ext)
            c == VenuePatchCalls(v, data, ext)
        IN  /\ o.resp.status = 200
            /\ o.resp.updated = <<>>
            /\ o.venues = venues /\ o.cities = cities /\ o.folders = folders
            /\ c.geo = 0 /\ c.ren = 0
            /\ Len(VenuePatchUnchanged(v, data, ext)) = Len(data)

\* The identical partial update of the event e, when it is answered 200.
IdenticalEventPatchIsNoOp(e, data, ext) ==
    LET o == PartUpdateEventOutcome(e, data, FALSE, ext)
    IN  /\ o.resp.status = 200
        /\ o.resp.updated = <<>>
        /\ o.events = events /\ o.folders = folders
        /\ Len(EventPatchUnchanged(e, data)) = Len(WithBothDates(events[e], data))

RejectedIdenticalEventBody(e, data) ==
    \/ /\ Has(data, "start_date") \/ Has(data, "end_date")
       /\ events[e].end_date <= now
    \/ /\ Has(data, "price_type")
       /\ Get(data, "price_type") \in {"fixed", "starting_from"}
       /\ ~Has(data, "price_amount")

C13SlugFollowsNameAndDate ==
    \A e \in DOMAIN events :
        events[e].slug =
            Slugify(events[e].name_en \o <<"-">> \o SlugDate(events[e].start_date))

\* A partial update has just changed the start_date of an event with an
\* image of its own, and the slug carries the new date.
C13Witness ==
    /\ resp.op = "part_update_event"
    /\ resp.status = 200
    /\ Contains(resp.updated, "start_date")
    /\ resp.id \in DOMAIN events
    /\ events[resp.id].start_date = CronPeriodHours
    /\ events[resp.id].slug = EventSlug(events[resp.id].name_en, CronPeriodHours)
    /\ ~EndsWithDefaultPng(events[resp.id].image_path)

\* ================================================================== C14
\* The image path of a document of the kind is the default one, or the
\* path under the document's current slug with its folder on disk.
ImageFollowsSlug(kind, doc) ==
    \/ doc.image_path = DefaultImagePath(kind)
    \/ /\ doc.image_path = ImagePath(kind, doc.slug)
       /\ FolderExists(folders, kind, doc.slug)

\* C14: every stored venue and event has the default image path or the path
\* under its current slug, and the folder of a non-default image is the one
\* named by the current slug.
C14ImagePathFollowsSlug ==
    /\ \A v \in DOMAIN venues : ImageFollowsSlug("venues", venues[v])
    /\ \A e \in DOMAIN events : ImageFollowsSlug("events", events[e])

\* ================================================================== C15
\* No two venues and no two events share a slug.
C15UniqueSlugs ==
    /\ \A v, w \in DOMAIN venues : venues[v].slug = venues[w].slug => v = w
    /\ \A e, f \in DOMAIN events : events[e].slug = events[f].slug => e = f

\* A create or update that is answered 409 leaves the documents and the
\* asset folders as they were, and stores no suffixed slug.
C15ConflictStep ==
    (/\ resp'.op \in {"create_venue", "part_update_venue", "full_update_venue",
                      "create_event", "part_update_event", "full_update_event"}
     /\ resp'.status = 409)
        => UNCHANGED <<venues, events, folders>>

\* C15: slugs are unique within venues and within events at all times, and
\* a request refused with 409 for a slug in use changes neither a stored
\* entity nor an asset folder.
C15SlugConflictChangesNothing == []C15UniqueSlugs /\ [][C15ConflictStep]_vars

\* ================================================================== C16
SlugNameLen == 3

\* The characters of the names the slug layer is fed: a lower-case and an
\* upper-case letter, a digit, the hyphen, the space and the apostrophe, all
\* accepted by the name_en patterns of the request validation (the Venue
\* document itself accepts letters, spaces and hyphens only).
SlugNameChars == {"a", "B", "1", "-", " ", "'"}

\* Every name of SlugNameLen characters (the patterns ask for 3 at least).
SlugNamePool == [1..SlugNameLen -> SlugNameChars]

\* Event names of the slug layer.
SlugEventNames == {<<"x", "y", "1">>, <<"X", " ", "y">>, <<"'", "x", "-">>, <<"-", "-", "z">>}

\* One venue named freely and one event on it, created and deleted.
NextSlugs ==
    \/ \E n \in SlugNamePool : CreateVenue(1, VenueCreateBody(n, 1), FALSE, "ok")
    \/ \E n \in SlugEventNames, t \in CascadeStartDates :
          CreateEvent(1, EventCreateBody(n, 1, 1, t, MaxTime), FALSE, "ok")
    \/ DeleteEvent(1)
    \/ DeleteVenue(1)

SpecSlugs == Init /\ [][NextSlugs]_vars

NameFields == {"name_en", "name_he", "name_ru"}

\* The Hebrew and the Russian name a request supplies for the venue v, the
\* event and the type: not the translator's rendering of the English one.
VenueNameHe(v) == <<"yod", "tav", IF v = 1 THEN "alef" ELSE "bet">>
VenueNameRu(v) == <<"ru_j", "ru_t", IF v = 1 THEN "ru_a" ELSE "ru_b">>
EventNameHe == <<"dalet", "yod", "1">>
EventNameRu == <<"ru_d", "ru_j", "2">>
TypeNameHe == <<"tav", "tav", "yod">>
TypeNameRu == <<"ru_t", "ru_t", "ru_j">>

\* A body of create_new_venue with the names of the set S.
VenueNamesBody(v, S, type) ==
    [k \in S \cup {"address_en", "city_en", "venue_type_en", "phone"} |->
        CASE k = "name_en" -> VenueName(v)
          [] k = "name_he" -> VenueNameHe(v)
          [] k = "name_ru" -> VenueNameRu(v)
          [] k = "address_en" -> <<"en", 1>>
          [] k = "venue_type_en" -> type
          [] OTHER -> 1]

\* The names of the set S as body parameters, in the order en, he, ru.
NameParams(S, en, he, ru) ==
    (IF "name_en" \in S THEN << <<"name_en", en>> >> ELSE <<>>)
    \o (IF "name_he" \in S THEN << <<"name_he", he>> >> ELSE <<>>)
    \o (IF "name_ru" \in S THEN << <<"name_ru", ru>> >> ELSE <<>>)

\* A body of create_new_event with the names of the set S.
EventNamesBody(S, venue, type) ==
    NameParams(S, EventName(1), EventNameHe, EventNameRu)
    \o << <<"venue_slug", venue>>, <<"event_type_slug", type>>,
          <<"start_date", 0>>, <<"end_date", MaxTime>>, <<"price_type", "free">> >>

\* The names of a type body with the names of the set S.
TypeNames(t, S) ==
    Names(IF "name_en" \in S THEN Some(TypeName(t)) ELSE None,
          IF "name_he" \in S THEN Some(TypeNameHe) ELSE None,
          IF "name_ru" \in S THEN Some(TypeNameRu) ELSE None)

\* Creates with every choice of supplied names, and deletes.
NextNames ==
    \/ \E v \in VenueId, S \in SUBSET NameFields, ext \in NameExtOutcomes :
          CreateVenue(v, VenueNamesBody(v, S, 1), FALSE, ext)
    \/ \E S \in SUBSET NameFields, ext \in NameExtOutcomes :
          CreateEvent(1, EventNamesBody(S, 1, 1), FALSE, ext)
    \/ \E ext \in NameExtOutcomes : CreateVenueType(2, ext)
    \/ \E ext \in NameExtOutcomes : CreateEventType(2, ext)
    \/ \E v \in VenueId : DeleteVenue(v)
    \/ DeleteEvent(1)

SpecNames == Init /\ [][NextNames]_vars

\* The text of the first supplied name in the order en, he, ru.
FirstSupplied(names) ==
    IF names.name_en # None THEN The(names.name_en)
    ELSE IF names.name_he # None THEN The(names.name_he)
    ELSE The(names.name_ru)

\* doc has three non-empty names, each supplied name as it was supplied and
\* each other name made from the first supplied one.
FilledFrom(doc, names, translit, ext) ==
    /\ doc.name_en # <<>> /\ doc.name_he # <<>> /\ doc.name_ru # <<>>
    /\ names.name_en # None => doc.name_en = The(names.name_en)
    /\ names.name_he # None => doc.name_he = The(names.name_he)
    /\ names.name_ru # None => doc.name_ru = The(names.name_ru)
    /\ names.name_en = None =>
          doc.name_en = TranslateName(FirstSupplied(names), "en", ext)
    /\ names.name_he = None =>
          doc.name_he = (IF translit
                         THEN TransliterateEnToHe(TranslateName(FirstSupplied(names), "he", ext))
                         ELSE TranslateName(FirstSupplied(names), "he", ext))
    /\ names.name_ru = None =>
          doc.name_ru = (IF translit
                         THEN TransliterateEnToRu(TranslateName(FirstSupplied(names), "ru", ext))
                         ELSE TranslateName(FirstSupplied(names), "ru", ext))

\* The translator succeeds.
TranslatorSucceeds == {"ok", "tr_same"}

C17Venues ==
    \A v \in VenueId \ DOMAIN venues, S \in SUBSET NameFields,
       type \in VenueTypeId, ext \in NameExtOutcomes :
        LET data == VenueNamesBody(v, S, type)
            o == CreateVenueOutcome(v, data, FALSE, ext)
        IN  /\ S = {} =>
                /\ o.resp.status \in {400, 404}
                /\ type \in venueTypes => o.resp.status = 400
                /\ o.venues = venues /\ o.cities = cities
                /\ AutoFillNames(NamesOfRecord(data), TRUE, ext).calls = <<>>
            /\ (S # {} /\ ext \in TranslatorSucceeds /\ o.resp.status = 201) =>
                FilledFrom(o.venues[v], NamesOfRecord(data), TRUE, ext)

C17Events ==
    \A e \in EventId \ DOMAIN events, S \in SUBSET NameFields,
       venue \in VenueId, ext \in NameExtOutcomes :
        LET data == EventNamesBody(S, venue, 1)
            o == CreateEventOutcome(e, data, FALSE, ext)
        IN  /\ S = {} =>
                /\ o.resp.status \in {400, 404}
                /\ venue \in DOMAIN venues => o.resp.status = 400
                /\ o.events = events
                /\ AutoFillNames(NamesOfBody(data), TRUE, ext).calls = <<>>
            /\ (S # {} /\ ext \in TranslatorSucceeds /\ o.resp.status = 201) =>
                FilledFrom(o.events[e], NamesOfBody(data), TRUE, ext)

C17Types ==
    \A t \in VenueTypeId, S \in SUBSET NameFields, ext \in NameExtOutcomes :
        LET names == TypeNames(t, S)
            vt == CreateVenueTypeOutcome(t, names, ext)
            et == CreateEventTypeOutcome(t, names, ext)
        IN  /\ S = {} =>
                /\ vt.status = 400 /\ et.status = 400
                /\ AutoFillNames(names, FALSE, ext).calls = <<>>
            /\ (S # {} /\ ext \in TranslatorSucceeds /\ vt.status = 201) =>
                FilledFrom(vt.doc, names, FALSE, ext)
            /\ (S # {} /\ ext \in TranslatorSucceeds /\ et.status = 201) =>
                FilledFrom(et.doc, names, FALSE, ext)

NextGateways ==
    \/ \E v \in VenueId, c \in CityId, ext \in ExtOutcomes :
          CreateVenue(v, [VenueCreateBody(VenueName(v), 1) EXCEPT !.city_en = c],
                      FALSE, ext)
    \/ \E e \in EventId, ext \in {"ok", "tr_name"} :
          CreateEvent(e, EventCreateBody(EventName(e), 1, 1, 0, MaxTime), FALSE, ext)
    \/ \E v \in VenueId, s \in 1..2, ext \in {"ok", "geo_404", "geo_err"} :
          PartUpdateVenue(v, << <<"address_en", <<"en", s>>>> >>, FALSE, ext)
    \/ \E v \in VenueId : DeleteVenue(v)
    \/ \E e \in EventId : DeleteEvent(e)

SpecGateways == Init /\ [][NextGateways]_vars

\* ================================================================== C18
\* A create answered with the status of an ExternalServiceError.
C18FailedCreate ==
    /\ resp'.op \in {"create_venue", "create_event"}
    /\ resp'.status = StatusOfExternalServiceError

\* C18: a create of a venue or an event that fails on a translation or a
\* geocoding error leaves every collection as it was: no venue, no event
\* and no city is stored by the failed request.
C18FailedCreateStoresNothing ==
    [][C18FailedCreate =>
          UNCHANGED <<venues, events, cities, venueTypes, eventTypes, users>>]_vars

\* ================================================================== C20
\* The request bodies of a venue create in the city c.
C20Body(v, c) == [VenueCreateBody(VenueName(v), 1) EXCEPT !.city_en = c]

\* C20: a create or an update during which a gateway call fails with an
\* ExternalServiceError is answered with status 503.
C20GatewayFailureIs503 ==
    /\ \A v \in VenueId \ DOMAIN venues, c \in CityId :
          /\ \A ext \in {"tr_name", "tr_addr", "geo_err"} :
                CreateVenueOutcome(v, C20Body(v, c), FALSE, ext).resp.status = 503
          /\ c \notin cities =>
                CreateVenueOutcome(v, C20Body(v, c), FALSE, "geonames").resp.status = 503
    /\ \A e \in EventId \ DOMAIN events :
          1 \in DOMAIN venues =>
             CreateEventOutcome(e, EventCreateBody(EventName(e), 1, 1, 0, MaxTime),
                                FALSE, "tr_name").resp.status = 503
    /\ (resp.op \in {"create_venue", "create_event", "part_update_venue"}
        /\ resp.status >= 500) => resp.status = 503

\* ================================================================== C19
\* The parameters of a partial venue update whose cases guard, look up or
\* act: is_active, venue_type_en, city_en, address_en and name_en.
PatchOrderPool ==
    {<<"is_active", b>> : b \in BOOLEAN}
        \cup {<<"venue_type_en", t>> : t \in VenueTypeId}
        \cup {<<"city_en", c>> : c \in CityId}
        \cup {<<"address_en", <<"en", s>>>> : s \in 1..2}
        \cup {<<"name_en", VenueName(i)>> : i \in 1..2}

\* One venue, with or without an image of its own, its event, and partial
\* updates with the parameters in every order.
NextPatchOrder ==
    \/ \E i \in 1..2, img \in BOOLEAN :
          CreateVenue(1, VenueCreateBody(VenueName(i), 1), img, "ok")
    \/ CreateEvent(1, EventCreateBody(EventName(1), 1, 1, 0, MaxTime), FALSE, "ok")
    \/ \E data \in Bodies(PatchOrderPool, MaxParams) \ {<<>>} :
          PartUpdateVenue(1, data, FALSE, "ok")
    \/ \E b \in BOOLEAN : PartUpdateEvent(1, << <<"is_active", b>> >>, FALSE, "ok")
    \/ DeleteEvent(1)
    \/ DeleteVenue(1)

SpecPatchOrder == Init /\ [][NextPatchOrder]_vars

\* A partial venue update refused by the deactivation guard or for a venue
\* type or city that does not exist.
C19RefusedPatch ==
    /\ resp'.op = "part_update_venue"
    /\ resp'.status \in {409, 404}

\* C19: a partial venue update that fails on the deactivation guard (409) or
\* on a venue type or city that is not found (404) has changed nothing: the
\* venues are as they were and no asset folder was renamed, whatever the
\* order of the parameters.
C19RefusedPatchChangesNothing ==
    [][C19RefusedPatch => UNCHANGED <<venues, folders, cities>>]_vars

\* =========================================================== event rules
PriceTypes == {"free", "tba", "fixed", "starting_from"}
RuleAmounts == {5, 7}
RuleStarts == {0, CronPeriodHours}
RuleEnds == {0, CronPeriodHours, 2 * CronPeriodHours}

\* A price_amount of a body: None (the parameter is left out) or Some(n).
AmountParam(amount) ==
    IF amount = None THEN <<>> ELSE << <<"price_amount", The(amount)>> >>

\* A body of create_new_event with the given price and dates.
EventRulesCreateBody(e, ptype, amount, start, end) ==
    << <<"name_en", EventName(e)>>, <<"venue_slug", 1>>, <<"event_type_slug", 1>>,
       <<"start_date", start>>, <<"end_date", end>>, <<"price_type", ptype>> >>
    \o AmountParam(amount)

\* A body of full_update_existing_event that resubmits the stored event
\* with the given price, dates and is_active.
EventRulesFullBody(e, ptype, amount, start, end, active) ==
    << <<"name_en", events[e].name_en>>, <<"venue_slug", events[e].venue>>,
       <<"event_type_slug", events[e].event_type>>,
       <<"start_date", start>>, <<"end_date", end>>,
       <<"price_type", ptype>>, <<"is_active", active>> >>
    \o AmountParam(amount)

\* The parameters of a partial event update that bear on the price, the
\* dates and is_active.
EventRulesPool ==
    {<<"price_type", t>> : t \in PriceTypes}
        \cup {<<"price_amount", a>> : a \in RuleAmounts}
        \cup {<<"start_date", t>> : t \in RuleStarts}
        \cup {<<"end_date", t>> : t \in RuleEnds}
        \cup {<<"is_active", b>> : b \in BOOLEAN}

OptionalAmounts == {None} \cup {Some(a) : a \in RuleAmounts}

\* One venue and one event on it: creates, full and partial updates with
\* every price and every pair of dates.
NextEventRules ==
    \/ CreateVenue(1, VenueCreateBody(VenueName(1), 1), FALSE, "ok")
    \/ \E e \in {1}, ptype \in PriceTypes, amount \in OptionalAmounts,
          start \in RuleStarts, end \in RuleEnds :
          CreateEvent(e, EventRulesCreateBody(e, ptype, amount, start, end), FALSE, "ok")
    \/ \E e \in {1}, ptype \in PriceTypes, amount \in OptionalAmounts,
          start \in RuleStarts, end \in RuleEnds, active \in BOOLEAN :
          /\ e \in DOMAIN events
          /\ FullUpdateEvent(e, EventRulesFullBody(e, ptype, amount, start, end, active),
                             FALSE, "ok")
    \/ \E e \in {1}, data \in Bodies(EventRulesPool, MaxParams) \ {<<>>} :
          PartUpdateEvent(e, data, FALSE, "ok")
    \/ DeleteEvent(1)

SpecEventRules == Init /\ [][NextEventRules]_vars

\* ================================================================== C21
\* The price rule: an amount is stored exactly with fixed and starting_from.
PriceRule(price_type, price_amount) ==
    price_amount # None <=> price_type \in {"fixed", "starting_from"}

\* The value a body gives a parameter, or else the stored one.
Submitted(data, param, stored) == IF Has(data, param) THEN Get(data, param) ELSE stored

\* The price a request asks to be stored on an event that has the price
\* stored_type, stored_amount.
AskedPriceRule(data, stored_type, stored_amount) ==
    PriceRule(Submitted(data, "price_type", stored_type),
              IF Has(data, "price_amount") THEN Some(Get(data, "price_amount"))
              ELSE stored_amount)

\* C21: every stored event has an amount exactly when its price type is
\* fixed or starting_from, and a create, a full update or a partial update
\* that asks for a price breaking this rule is answered 400 and leaves the
\* events as they were.
C21PriceRuleKept ==
    /\ \A e \in DOMAIN events : PriceRule(events[e].price_type, events[e].price_amount)
    /\ \A e \in EventId \ DOMAIN events, ptype \in PriceTypes, amount \in OptionalAmounts :
          LET o == CreateEventOutcome(
                      e, EventRulesCreateBody(e, ptype, amount, 0, CronPeriodHours),
                      FALSE, "ok")
          IN  (1 \in DOMAIN venues /\ ~PriceRule(ptype, amount)) =>
                 (o.resp.status = 400 /\ o.events = events)
    /\ \A e \in DOMAIN events :
          /\ \A ptype \in PriceTypes, amount \in OptionalAmounts :
                LET o == FullUpdateEventOutcome(
                            e, EventRulesFullBody(e, ptype, amount, events[e].start_date,
                                                  events[e].end_date, TRUE),
                            FALSE, "ok")
                IN  ~PriceRule(ptype, amount) =>
                       (o.resp.status = 400 /\ o.events = events)
          /\ \A data \in Bodies(EventRulesPool, MaxParams) \ {<<>>} :
                LET o == PartUpdateEventOutcome(e, data, FALSE, "ok")
                IN  ~AskedPriceRule(data, events[e].price_type, events[e].price_amount) =>
                       (o.resp.status = 400 /\ o.events = events)

\* A free event is stored after a partial update that asked for an amount
\* on it was refused with 400.
C21Witness ==
    /\ \E e \in DOMAIN events : events[e].price_type = "free"
    /\ resp.op = "part_update_event"
    /\ resp.status = 400

\* ================================================================== C22
\* C22: every stored event starts strictly before it ends.
C22StartBeforeEnd ==
    \A e \in DOMAIN events : events[e].start_date < events[e].end_date

\* ===================================================== requests in flight
\* The application serves its requests on concurrent threads; no handler
\* takes a lock or opens a transaction (the source holds neither). Between
\* the reads of part_update_existing_venue (Venue.objects(slug=slug).first(),
\* Event.objects(venue=venue, is_active=True).count()) and its one write
\* (Venue.objects(slug=slug).update_one) the other requests run.
RequestIds == {1, 2}

\* part_update_existing_venue up to its write (venues_controllers.py
\* 485-562): the venue is read, the loop over the body checks the guard,
\* renames the image folder and collects update_data. A request that fails,
\* or that collects nothing, is answered here; the others stay in flight
\* with the slug of the URL, the venue object they read and update_data.
ReadPartUpdateVenue(r, v, data) ==
    /\ r \notin DOMAIN inflight
    /\ v \in DOMAIN venues
    /\ LET acc == VenuePatchLoop(v, data, 1,
                      [err |-> 0, upd |-> <<>>, unchanged |-> <<>>, fs |-> folders,
                       geo |-> 0, ren |-> 0], "ok")
       IN  IF acc.err # 0 \/ acc.upd = <<>>
           THEN /\ Commit(PartUpdateVenueOutcome(v, data, FALSE, "ok"))
                /\ UNCHANGED inflight
           ELSE /\ inflight' = With(inflight, r,
                                    [slug |-> venues[v].slug, venue |-> v,
                                     update_data |-> acc.upd])
                /\ folders' = acc.fs
                /\ resp' = Resp("read_venue", 0, v, <<>>, 0)
                /\ UNCHANGED <<venues, cities>>
    /\ UNCHANGED <<events, users, venueTypes, eventTypes, jobs, now, everActive>>

\* The rest of part_update_existing_venue (venues_controllers.py 564-580):
\* update_one on the venue that holds the slug of the URL now (none: nothing
\* is written and update_one does not complain), venue.reload() by id
\* (DoesNotExist, answered 500, when the venue was deleted meanwhile) and
\* the answer 200 listing the keys of update_data.
WritePartUpdateVenue(r) ==
    /\ r \in DOMAIN inflight
    /\ LET req == inflight[r]
           matched == {w \in DOMAIN venues : venues[w].slug = req.slug}
           upd == req.update_data
           answer(status, updated) ==
               resp' = Resp("part_update_venue", status, req.venue, updated, 0)
       IN  IF matched = {}
           THEN /\ venues' = venues
                /\ IF req.venue \in DOMAIN venues THEN answer(200, Keys(upd))
                   ELSE answer(500, <<>>)
           ELSE LET w == CHOOSE w \in matched : TRUE
                IN  IF Has(upd, "slug") /\ VenueSlugTaken(w, Get(upd, "slug"))
                    THEN /\ venues' = venues
                         /\ answer(StatusOfNotUniqueError, <<>>)
                    ELSE /\ venues' = With(venues, w, ApplyUpdate(venues[w], upd))
                         /\ IF req.venue \in DOMAIN venues THEN answer(200, Keys(upd))
                            ELSE answer(500, <<>>)
    /\ inflight' = Without(inflight, r)
    /\ UNCHANGED <<events, users, venueTypes, eventTypes, cities, folders, jobs, now,
                   everActive>>

\* What the concurrent venue requests submit: is_active and a new name.
RaceVenuePool ==
    {<<"is_active", b>> : b \in BOOLEAN} \cup {<<"name_en", VenueName(i)>> : i \in 1..2}

\* One venue, its events and two request threads on the venue.
NextRace ==
    \/ CreateVenue(1, VenueCreateBody(VenueName(1), 1), FALSE, "ok")
    \/ \E e \in EventId :
          CreateEvent(e, EventCreateBody(EventName(e), 1, 1, 0, CronPeriodHours),
                      FALSE, "ok")
    \/ \E e \in EventId, b \in BOOLEAN :
          PartUpdateEvent(e, << <<"is_active", b>> >>, FALSE, "ok")
    \/ \E r \in RequestIds, data \in Bodies(RaceVenuePool, 1) \ {<<>>} :
          ReadPartUpdateVenue(r, 1, data)
    \/ \E r \in RequestIds : WritePartUpdateVenue(r)

SpecRace == Init /\ [][NextRace]_vars

\* ================================================================== C23
\* C23: a venue-deactivating update that runs concurrently with the creation
\* or the activation of an event of the venue never leaves the venue inactive
\* with an active event: in the state after the step that writes
\* is_active = false on an active venue, the venue has no active event.
C23DeactivationSeesNoActiveEvent ==
    [][\A v \in DOMAIN venues :
          (v \in DOMAIN venues' /\ venues[v].is_active /\ ~venues'[v].is_active)
              => {e \in DOMAIN events' :
                     events'[e].venue = v /\ events'[e].is_active} = {}]_vars

\* ================================================================== C28
\* C28: a partial venue update answered 200 with a non-empty list of updated
\* parameters has stored every listed change on the venue it addressed,
\* also when another request renamed the venue between this request's read
\* and its write.
C28ListedChangesPersisted ==
    [][\A r \in DOMAIN inflight :
          (/\ r \notin DOMAIN inflight'
           /\ resp'.op = "part_update_venue"
           /\ resp'.status = 200
           /\ resp'.updated # <<>>)
              => LET req == inflight[r]
                 IN  /\ req.venue \in DOMAIN venues'
                     /\ \A i \in 1..Len(req.update_data) :
                           venues'[req.venue][req.update_data[i][1]]
                               = req.update_data[i][2]]_vars

\* ================================================================== C24
ActiveEvents == {e \in DOMAIN events : events[e].is_active}

SchedulerSteps == {"init_scheduler", "cron", "cleanup_unactivated_accounts", "tick"}

\* C24: no scheduler job turns an inactive event active. In every step of
\* the scheduler the set of active events does not grow, and an event that
\* was inactive becomes active only in an update request.
C24SchedulerNeverReactivates ==
    [][/\ resp'.op \in SchedulerSteps
          => {e \in DOMAIN events' : events'[e].is_active} \subseteq ActiveEvents
       /\ \A e \in DOMAIN events :
             (e \in DOMAIN events' /\ ~events[e].is_active /\ events'[e].is_active)
                 => resp'.op \in {"part_update_event", "full_update_event"}]_vars

\* The expiry job has just run over an active past event and over an
\* inactive one, and left both inactive.
C24Witness ==
    /\ resp.op = "cron"
    /\ resp.n >= 1
    /\ Cardinality({e \in DOMAIN events : events[e].end_date < now}) >= 2
    /\ ActiveEvents = {}

\* ================================================================== C25
\* A body of create_new_venue whose only name is the name venue w holds in
\* one language.
SameNameBody(w, field) ==
    [k \in {field, "address_en", "city_en", "venue_type_en", "phone"} |->
        CASE k = field -> venues[w][field]
          [] k = "address_en" -> <<"en", 2>>
          [] OTHER -> 1]

\* C25: a create_new_venue whose source-language name is already the name of
\* another venue in that language is refused with 409 before any translation
\* call, whatever the translator would answer, for each of name_en, name_he
\* and name_ru.
C25NameInUseRefusedFirst ==
    \A w \in DOMAIN venues, v \in VenueId \ DOMAIN venues,
       field \in NameFields, ext \in NameExtOutcomes :
        1 \in venueTypes
            => CreateVenueOutcome(v, SameNameBody(w, field), FALSE, ext).resp.status = 409

\* ================================================================== C26
\* C26: deleting an event, directly or with its venue, deletes no user: the
\* users after the delete are the users before it, each with every field
\* but favorite_events unchanged.
C26EventDeleteKeepsUsers ==
    [][(resp'.op \in {"delete_event", "delete_venue"} /\ resp'.status = 204)
          => /\ DOMAIN users' = DOMAIN users
             /\ \A u \in DOMAIN users :
                   users'[u] = [users[u] EXCEPT !.favorite_events =
                                   users'[u].favorite_events]]_vars

\* ================================================================== C27
\* C27: cleanup_unactivated_accounts never deletes an account that was
\* active at an earlier time, also when an admin has set it inactive again:
\* every account of everActive is still in the collection after a run of
\* the job.
C27ActivatedAccountsSurvive ==
    [][resp'.op \in {"cleanup_unactivated_accounts", "cron"}
          => \A u \in everActive : u \in DOMAIN users']_vars

\* ================================================================== C29
\* The event expiry with its scheduling: init_scheduler runs when the server
\* module is loaded, and the BackgroundScheduler fires the cron trigger
\* every day from then on.
SpecExpiryFair == SpecExpiry /\ WF_vars(InitScheduler) /\ WF_vars(CronFire)

ActivePast(e) == e \in DOMAIN events /\ events[e].is_active /\ events[e].end_date < now

\* C29: with the daily trigger weakly fair, an event that is active with its
\* end_date in the past eventually is not, also after it was set active
\* again by a request: no event stays active and past forever.
C29PastEventsEventuallyInactive ==
    \A e \in EventId : ActivePast(e) ~> ~ActivePast(e)

\* An update request has just set a past event active again while the
\* scheduler is running.
C29Witness ==
    /\ jobs # {}
    /\ resp.op = "part_update_event"
    /\ resp.status = 200
    /\ resp.updated = <<"is_active">>
    /\ ActivePast(resp.id)
    /\ events[resp.id].end_date < now - CronPeriodHours

\* ================================================================== C30
\* C30: for each price type a full update of an existing event to that type
\* can succeed: some body passes the required-parameter check and the
\* validation and leaves the event stored with that price_type and an
\* amount that keeps the price rule.
C30EveryPriceTypePutCanSucceed ==
    \A e \in DOMAIN events, ptype \in PriceTypes :
        \E amount \in OptionalAmounts, start \in RuleStarts, end \in RuleEnds,
           active \in BOOLEAN :
            LET o == FullUpdateEventOutcome(
                         e, EventRulesFullBody(e, ptype, amount, start, end, active),
                         FALSE, "ok")
            IN  /\ o.resp.status = 200
                /\ o.events[e].price_type = ptype
                /\ PriceRule(ptype, o.events[e].price_amount)

====
